---- MODULE Spec2Model ----
(***************************************************************************)
(* Splice Sample Organizer (src/splice_organizer.py).                      *)
(*                                                                         *)
(* The model has three layers:                                             *)
(*   - path and text helpers (pathlib / str / re as the program uses them),*)
(*   - the pure classifiers and the unique-name generator,                  *)
(*   - the SampleOrganizer state machine: the in-memory Link Record        *)
(*     (self.state), the persisted state file, the source files below the  *)
(*     watched root and the links under the output tree.                   *)
(* Paths are real strings, so that names, folders and collisions are       *)
(* computed the way the program computes them.                             *)
(***************************************************************************)
EXTENDS Integers, Sequences, FiniteSets, TLC

(***************************************************************************)
(* Text helpers.                                                           *)
(***************************************************************************)
Char(s, i) == SubSeq(s, i, i)

UpperChars == "ABCDEFGHIJKLMNOPQRSTUVWXYZ"

LowerChars == "abcdefghijklmnopqrstuvwxyz"

DigitChars == "0123456789"

InChars(c, chars) == \E i \in 1..Len(chars) : Char(chars, i) = c

\* str.lower() on one character
LowerChar(c) ==
  IF InChars(c, UpperChars)
  THEN Char(LowerChars, CHOOSE i \in 1..Len(UpperChars) : Char(UpperChars, i) = c)
  ELSE c

RECURSIVE Lower(_)
\* str.lower()
Lower(s) == IF s = "" THEN "" ELSE LowerChar(Char(s, 1)) \o Lower(SubSeq(s, 2, Len(s)))

\* `sub in text`
Contains(text, sub) ==
  \E i \in 1..(Len(text) - Len(sub) + 1) : SubSeq(text, i, i + Len(sub) - 1) = sub

RECURSIVE Join(_, _)
\* sep.join(parts)
Join(parts, sep) ==
  IF Len(parts) = 0 THEN ""
  ELSE IF Len(parts) = 1 THEN parts[1]
  ELSE parts[1] \o sep \o Join(Tail(parts), sep)

Range(f) == {f[i] : i \in DOMAIN f}

(***************************************************************************)
(* pathlib helpers, for absolute normalised POSIX paths.                   *)
(***************************************************************************)
SlashPositions(s) == {i \in 1..Len(s) : Char(s, i) = "/"}

Max(S) == CHOOSE x \in S : \A y \in S : y <= x

Min(S) == CHOOSE x \in S : \A y \in S : x <= y

RECURSIVE Segments(_)
\* the segments of a path without its leading "/"
Segments(s) ==
  IF s = "" THEN <<>>
  ELSE IF SlashPositions(s) = {} THEN <<s>>
  ELSE LET i == Min(SlashPositions(s))
       IN  <<SubSeq(s, 1, i - 1)>> \o Segments(SubSeq(s, i + 1, Len(s)))

\* Path(p).parts
Parts(p) == <<"/">> \o Segments(SubSeq(p, 2, Len(p)))

\* Path(p).name
BaseName(p) == LET ps == Parts(p) IN IF Len(ps) = 1 THEN "" ELSE ps[Len(ps)]

DotPositions(s) == {i \in 1..Len(s) : Char(s, i) = "."}

\* index of the dot that starts the suffix of a file name, 0 if none
SuffixAt(name) ==
  IF DotPositions(name) = {} THEN 0
  ELSE LET i == Max(DotPositions(name))
       IN  IF i > 1 /\ i < Len(name) THEN i ELSE 0

\* Path(p).suffix
Suffix(p) ==
  LET name == BaseName(p) IN
  IF SuffixAt(name) = 0 THEN "" ELSE SubSeq(name, SuffixAt(name), Len(name))

\* Path(p).stem
Stem(p) ==
  LET name == BaseName(p) IN
  IF SuffixAt(name) = 0 THEN name ELSE SubSeq(name, 1, SuffixAt(name) - 1)

\* [q.name for q in Path(p).parents]: nearest directory first, "" for the root
ParentNames(p) ==
  LET ps == Parts(p)
      n  == Len(ps)
  IN  [k \in 1..(n - 1) |-> IF n - k = 1 THEN "" ELSE ps[n - k]]

\* parts.index(x), 0 when absent (ValueError)
IndexOf(seq, x) ==
  IF \E i \in DOMAIN seq : seq[i] = x
  THEN Min({i \in DOMAIN seq : seq[i] = x})
  ELSE 0

(***************************************************************************)
(* Configuration (module constants of the program).                        *)
(***************************************************************************)
Home == "/Users/isaacfidler"

SPLICE_PACKS_DIR == Home \o "/Splice/sounds/packs"

ORGANIZED_DIR == Home \o "/Splice-Organized"

(***************************************************************************)
(* Pattern tables.  A regular expression of the program is written as      *)
(*   [lb, body, rb]: lb is the leading group (?:^|[\s_/]), rb the trailing *)
(*   group (?:[\s_/]|$), and body is the sequence of the remaining pieces, *)
(*   each piece the set of strings it can match ("" for an optional piece).*)
(* \s is the space character: the search texts are joined with " " and the *)
(* modelled paths contain no other white space.                            *)
(***************************************************************************)
ONESHOT_CATEGORIES ==
  <<
     <<"Kicks", <<
        [lb |-> TRUE, body |-> <<{"kick"}, {"", "s"}>>, rb |-> TRUE],
        [lb |-> TRUE, body |-> <<{"kck"}>>, rb |-> TRUE],
        [lb |-> TRUE, body |-> <<{"bd"}>>, rb |-> TRUE],
        [lb |-> TRUE, body |-> <<{"bass"}, {"", "_", " "}, {"drum"}>>, rb |-> FALSE] >> >>,
     <<"Snares", <<
        [lb |-> TRUE, body |-> <<{"snare"}, {"", "s"}>>, rb |-> TRUE],
        [lb |-> TRUE, body |-> <<{"snr"}>>, rb |-> TRUE],
        [lb |-> TRUE, body |-> <<{"sd"}>>, rb |-> TRUE],
        [lb |-> TRUE, body |-> <<{"rimshot"}>>, rb |-> FALSE],
        [lb |-> TRUE, body |-> <<{"clap"}, {"", "s"}>>, rb |-> TRUE] >> >>,
     <<"HiHats", <<
        [lb |-> FALSE, body |-> <<{"hi"}, {"", "_", " ", "-"}, {"hat"}, {"", "s"}>>, rb |-> FALSE],
        [lb |-> TRUE, body |-> <<{"hat"}, {"", "s"}>>, rb |-> TRUE],
        [lb |-> TRUE, body |-> <<{"hh"}>>, rb |-> TRUE],
        [lb |-> TRUE, body |-> <<{"closed"}>>, rb |-> TRUE],
        [lb |-> TRUE, body |-> <<{"open"}>>, rb |-> TRUE] >> >>,
     <<"Cymbals", <<
        [lb |-> TRUE, body |-> <<{"cymbal"}, {"", "s"}>>, rb |-> TRUE],
        [lb |-> TRUE, body |-> <<{"crash"}>>, rb |-> FALSE],
        [lb |-> TRUE, body |-> <<{"ride"}>>, rb |-> TRUE],
        [lb |-> TRUE, body |-> <<{"china"}>>, rb |-> FALSE],
        [lb |-> TRUE, body |-> <<{"splash"}>>, rb |-> FALSE] >> >>,
     <<"Percussion", <<
        [lb |-> TRUE, body |-> <<{"perc"}, {"", "s"}>>, rb |-> TRUE],
        [lb |-> TRUE, body |-> <<{"percussion"}>>, rb |-> FALSE],
        [lb |-> TRUE, body |-> <<{"tom"}, {"", "s"}>>, rb |-> TRUE],
        [lb |-> TRUE, body |-> <<{"bongo"}>>, rb |-> FALSE],
        [lb |-> TRUE, body |-> <<{"conga"}>>, rb |-> FALSE],
        [lb |-> TRUE, body |-> <<{"shaker"}>>, rb |-> FALSE],
        [lb |-> TRUE, body |-> <<{"tambourine"}>>, rb |-> FALSE],
        [lb |-> TRUE, body |-> <<{"cowbell"}>>, rb |-> FALSE],
        [lb |-> TRUE, body |-> <<{"claves"}>>, rb |-> FALSE],
        [lb |-> TRUE, body |-> <<{"triangle"}>>, rb |-> FALSE],
        [lb |-> TRUE, body |-> <<{"rim"}>>, rb |-> TRUE] >> >>,
     <<"FX", <<
        [lb |-> TRUE, body |-> <<{"fx"}>>, rb |-> TRUE],
        [lb |-> TRUE, body |-> <<{"effect"}, {"", "s"}>>, rb |-> TRUE],
        [lb |-> TRUE, body |-> <<{"riser"}>>, rb |-> FALSE],
        [lb |-> TRUE, body |-> <<{"downlifter"}>>, rb |-> FALSE],
        [lb |-> TRUE, body |-> <<{"impact"}, {"", "s"}>>, rb |-> TRUE],
        [lb |-> TRUE, body |-> <<{"sweep"}>>, rb |-> FALSE],
        [lb |-> TRUE, body |-> <<{"transition"}>>, rb |-> FALSE],
        [lb |-> TRUE, body |-> <<{"foley"}>>, rb |-> FALSE],
        [lb |-> TRUE, body |-> <<{"noise"}>>, rb |-> FALSE],
        [lb |-> TRUE, body |-> <<{"texture"}, {"", "s"}>>, rb |-> TRUE] >> >>,
     <<"Synths", <<
        [lb |-> TRUE, body |-> <<{"synth"}, {"", "s"}>>, rb |-> TRUE],
        [lb |-> TRUE, body |-> <<{"lead"}, {"", "s"}>>, rb |-> TRUE],
        [lb |-> TRUE, body |-> <<{"pad"}, {"", "s"}>>, rb |-> TRUE],
        [lb |-> TRUE, body |-> <<{"chord"}, {"", "s"}>>, rb |-> TRUE],
        [lb |-> TRUE, body |-> <<{"arp"}, {"", "s"}>>, rb |-> TRUE],
        [lb |-> TRUE, body |-> <<{"pluck"}, {"", "s"}>>, rb |-> TRUE],
        [lb |-> TRUE, body |-> <<{"stab"}, {"", "s"}>>, rb |-> TRUE],
        [lb |-> TRUE, body |-> <<{"keys"}>>, rb |-> TRUE],
        [lb |-> TRUE, body |-> <<{"piano"}>>, rb |-> FALSE],
        [lb |-> TRUE, body |-> <<{"organ"}>>, rb |-> FALSE] >> >>,
     <<"Bass", <<
        [lb |-> TRUE, body |-> <<{"bass"}>>, rb |-> TRUE],
        [lb |-> TRUE, body |-> <<{"sub"}>>, rb |-> TRUE],
        [lb |-> TRUE, body |-> <<{"808"}>>, rb |-> TRUE],
        [lb |-> TRUE, body |-> <<{"reese"}>>, rb |-> FALSE] >> >>,
     <<"Vocals", <<
        [lb |-> TRUE, body |-> <<{"vocal"}, {"", "s"}>>, rb |-> TRUE],
        [lb |-> TRUE, body |-> <<{"vox"}>>, rb |-> TRUE],
        [lb |-> TRUE, body |-> <<{"voice"}>>, rb |-> FALSE],
        [lb |-> TRUE, body |-> <<{"spoken"}>>, rb |-> FALSE],
        [lb |-> TRUE, body |-> <<{"chant"}>>, rb |-> FALSE],
        [lb |-> TRUE, body |-> <<{"adlib"}>>, rb |-> FALSE],
        [lb |-> TRUE, body |-> <<{"shout"}>>, rb |-> FALSE] >> >>
  >>

LOOP_CATEGORIES ==
  <<
     <<"Drums", <<
        [lb |-> TRUE, body |-> <<{"drum"}, {"", "s"}>>, rb |-> TRUE],
        [lb |-> TRUE, body |-> <<{"beat"}, {"", "s"}>>, rb |-> TRUE],
        [lb |-> TRUE, body |-> <<{"groove"}>>, rb |-> FALSE],
        [lb |-> TRUE, body |-> <<{"break"}, {"", "s"}>>, rb |-> TRUE],
        [lb |-> TRUE, body |-> <<{"top"}, {"", "s"}>>, rb |-> TRUE],
        [lb |-> TRUE, body |-> <<{"full"}>>, rb |-> TRUE] >> >>,
     <<"Bass", <<
        [lb |-> TRUE, body |-> <<{"bass"}>>, rb |-> TRUE],
        [lb |-> TRUE, body |-> <<{"sub"}>>, rb |-> TRUE],
        [lb |-> TRUE, body |-> <<{"808"}>>, rb |-> TRUE],
        [lb |-> TRUE, body |-> <<{"reese"}>>, rb |-> FALSE] >> >>,
     <<"Synths", <<
        [lb |-> TRUE, body |-> <<{"synth"}, {"", "s"}>>, rb |-> TRUE],
        [lb |-> TRUE, body |-> <<{"lead"}, {"", "s"}>>, rb |-> TRUE],
        [lb |-> TRUE, body |-> <<{"arp"}, {"", "s"}>>, rb |-> TRUE],
        [lb |-> TRUE, body |-> <<{"pluck"}, {"", "s"}>>, rb |-> TRUE],
        [lb |-> TRUE, body |-> <<{"stab"}, {"", "s"}>>, rb |-> TRUE],
        [lb |-> TRUE, body |-> <<{"chord"}, {"", "s"}>>, rb |-> TRUE],
        [lb |-> TRUE, body |-> <<{"keys"}>>, rb |-> TRUE],
        [lb |-> FALSE, body |-> <<{"melod"}>>, rb |-> FALSE] >> >>,
     <<"Pads", <<
        [lb |-> TRUE, body |-> <<{"pad"}, {"", "s"}>>, rb |-> TRUE],
        [lb |-> TRUE, body |-> <<{"atmosphere"}>>, rb |-> FALSE],
        [lb |-> TRUE, body |-> <<{"ambient"}>>, rb |-> FALSE],
        [lb |-> TRUE, body |-> <<{"texture"}, {"", "s"}>>, rb |-> TRUE],
        [lb |-> TRUE, body |-> <<{"drone"}>>, rb |-> FALSE] >> >>,
     <<"FX", <<
        [lb |-> TRUE, body |-> <<{"fx"}>>, rb |-> TRUE],
        [lb |-> TRUE, body |-> <<{"effect"}, {"", "s"}>>, rb |-> TRUE],
        [lb |-> TRUE, body |-> <<{"riser"}>>, rb |-> FALSE],
        [lb |-> TRUE, body |-> <<{"downlifter"}>>, rb |-> FALSE],
        [lb |-> TRUE, body |-> <<{"transition"}>>, rb |-> FALSE] >> >>,
     <<"Percussion", <<
        [lb |-> TRUE, body |-> <<{"perc"}, {"", "s"}>>, rb |-> TRUE],
        [lb |-> TRUE, body |-> <<{"hat"}, {"", "s"}>>, rb |-> TRUE],
        [lb |-> TRUE, body |-> <<{"shaker"}>>, rb |-> FALSE],
        [lb |-> TRUE, body |-> <<{"tambourine"}>>, rb |-> FALSE] >> >>,
     <<"Vocals", <<
        [lb |-> TRUE, body |-> <<{"vocal"}, {"", "s"}>>, rb |-> TRUE],
        [lb |-> TRUE, body |-> <<{"vox"}>>, rb |-> TRUE],
        [lb |-> TRUE, body |-> <<{"voice"}>>, rb |-> FALSE],
        [lb |-> TRUE, body |-> <<{"hook"}>>, rb |-> FALSE],
        [lb |-> TRUE, body |-> <<{"chant"}>>, rb |-> FALSE] >> >>
  >>

GENRE_Electronic ==
  <<
     <<"Techno", <<
        [lb |-> FALSE, body |-> <<{"techno"}>>, rb |-> FALSE],
        [lb |-> FALSE, body |-> <<{"industrial"}>>, rb |-> FALSE],
        [lb |-> FALSE, body |-> <<{"minimal"}>>, rb |-> FALSE],
        [lb |-> FALSE, body |-> <<{"ebm"}>>, rb |-> FALSE],
        [lb |-> FALSE, body |-> <<{"hard"}, {"", "_", " ", "-"}, {"techno"}>>, rb |-> FALSE],
        [lb |-> FALSE, body |-> <<{"acid"}, {"", "_", " ", "-"}, {"techno"}>>, rb |-> FALSE],
        [lb |-> FALSE, body |-> <<{"berlin"}>>, rb |-> FALSE],
        [lb |-> FALSE, body |-> <<{"warehouse"}>>, rb |-> FALSE] >> >>,
     <<"House", <<
        [lb |-> FALSE, body |-> <<{"house"}>>, rb |-> FALSE],
        [lb |-> FALSE, body |-> <<{"deep"}, {"", "_", " ", "-"}, {"house"}>>, rb |-> FALSE],
        [lb |-> FALSE, body |-> <<{"tech"}, {"", "_", " ", "-"}, {"house"}>>, rb |-> FALSE],
        [lb |-> FALSE, body |-> <<{"future"}, {"", "_", " ", "-"}, {"house"}>>, rb |-> FALSE],
        [lb |-> FALSE, body |-> <<{"bass"}, {"", "_", " ", "-"}, {"house"}>>, rb |-> FALSE],
        [lb |-> FALSE, body |-> <<{"jackin"}>>, rb |-> FALSE],
        [lb |-> FALSE, body |-> <<{"chicago"}, {"", "_", " ", "-"}, {"house"}>>, rb |-> FALSE],
        [lb |-> FALSE, body |-> <<{"garage"}, {"", "_", " ", "-"}, {"house"}>>, rb |-> FALSE],
        [lb |-> FALSE, body |-> <<{"progressive"}, {"", "_", " ", "-"}, {"house"}>>, rb |-> FALSE],
        [lb |-> FALSE, body |-> <<{"tropical"}>>, rb |-> FALSE] >> >>,
     <<"Drum_and_Bass", <<
        [lb |-> FALSE, body |-> <<{"drum"}, {"", "_", " ", "-"}, {"and", "&", "n"}, {"", "_", " ", "-"}, {"bass"}>>, rb |-> FALSE],
        [lb |-> FALSE, body |-> <<{"dnb"}>>, rb |-> FALSE],
        [lb |-> FALSE, body |-> <<{"d&b"}>>, rb |-> FALSE],
        [lb |-> FALSE, body |-> <<{"d"}, {"", "_", " ", "-"}, {"n"}, {"", "_", " ", "-"}, {"b"}>>, rb |-> FALSE],
        [lb |-> FALSE, body |-> <<{"jungle"}>>, rb |-> FALSE],
        [lb |-> FALSE, body |-> <<{"liquid"}>>, rb |-> FALSE],
        [lb |-> FALSE, body |-> <<{"neuro"}>>, rb |-> FALSE],
        [lb |-> FALSE, body |-> <<{"jump"}, {"", "_", " ", "-"}, {"up"}>>, rb |-> FALSE],
        [lb |-> FALSE, body |-> <<{"breakcore"}>>, rb |-> FALSE] >> >>,
     <<"Dubstep", <<
        [lb |-> FALSE, body |-> <<{"dubstep"}>>, rb |-> FALSE],
        [lb |-> FALSE, body |-> <<{"riddim"}>>, rb |-> FALSE],
        [lb |-> FALSE, body |-> <<{"brostep"}>>, rb |-> FALSE],
        [lb |-> FALSE, body |-> <<{"tearout"}>>, rb |-> FALSE],
        [lb |-> FALSE, body |-> <<{"deep"}, {"", "_", " ", "-"}, {"dubstep"}>>, rb |-> FALSE],
        [lb |-> FALSE, body |-> <<{"melodic"}, {"", "_", " ", "-"}, {"dubstep"}>>, rb |-> FALSE],
        [lb |-> FALSE, body |-> <<{"colour"}, {"", "_", " ", "-"}, {"bass"}>>, rb |-> FALSE],
        [lb |-> FALSE, body |-> <<{"color"}, {"", "_", " ", "-"}, {"bass"}>>, rb |-> FALSE] >> >>,
     <<"Garage", <<
        [lb |-> FALSE, body |-> <<{"uk"}, {"", "_", " ", "-"}, {"garage"}>>, rb |-> FALSE],
        [lb |-> FALSE, body |-> <<{"ukg"}>>, rb |-> FALSE],
        [lb |-> FALSE, body |-> <<{"2"}, {"", "_", " ", "-"}, {"step"}>>, rb |-> FALSE],
        [lb |-> FALSE, body |-> <<{"speed"}, {"", "_", " ", "-"}, {"garage"}>>, rb |-> FALSE],
        [lb |-> FALSE, body |-> <<{"bassline"}>>, rb |-> FALSE],
        [lb |-> FALSE, body |-> <<{"4x4"}>>, rb |-> FALSE] >> >>,
     <<"Footwork", <<
        [lb |-> FALSE, body |-> <<{"footwork"}>>, rb |-> FALSE],
        [lb |-> FALSE, body |-> <<{"juke"}>>, rb |-> FALSE],
        [lb |-> FALSE, body |-> <<{"chicago"}, {"", "_", " ", "-"}, {"footwork"}>>, rb |-> FALSE],
        [lb |-> FALSE, body |-> <<{"160"}, {"", "_", " ", "-"}, {"bpm"}>>, rb |-> FALSE] >> >>,
     <<"Trap", <<
        [lb |-> FALSE, body |-> <<{"trap"}>>, rb |-> FALSE],
        [lb |-> FALSE, body |-> <<{"hip"}, {"", "_", " ", "-"}, {"hop"}>>, rb |-> FALSE],
        [lb |-> FALSE, body |-> <<{"crunk"}>>, rb |-> FALSE],
        [lb |-> FALSE, body |-> <<{"dirty"}, {"", "_", " ", "-"}, {"south"}>>, rb |-> FALSE],
        [lb |-> FALSE, body |-> <<{"atlanta"}>>, rb |-> FALSE],
        [lb |-> FALSE, body |-> <<{"phonk"}>>, rb |-> FALSE],
        [lb |-> FALSE, body |-> <<{"memphis"}>>, rb |-> FALSE],
        [lb |-> FALSE, body |-> <<{"boom"}, {"", "_", " ", "-"}, {"bap"}>>, rb |-> FALSE],
        [lb |-> FALSE, body |-> <<{"rap"}>>, rb |-> FALSE],
        [lb |-> FALSE, body |-> <<{"beats"}>>, rb |-> FALSE] >> >>,
     <<"Drill", <<
        [lb |-> FALSE, body |-> <<{"drill"}>>, rb |-> FALSE],
        [lb |-> FALSE, body |-> <<{"uk"}, {"", "_", " ", "-"}, {"drill"}>>, rb |-> FALSE],
        [lb |-> FALSE, body |-> <<{"ny"}, {"", "_", " ", "-"}, {"drill"}>>, rb |-> FALSE],
        [lb |-> FALSE, body |-> <<{"chicago"}, {"", "_", " ", "-"}, {"drill"}>>, rb |-> FALSE],
        [lb |-> FALSE, body |-> <<{"brooklyn"}, {"", "_", " ", "-"}, {"drill"}>>, rb |-> FALSE] >> >>,
     <<"Grime", <<
        [lb |-> FALSE, body |-> <<{"grime"}>>, rb |-> FALSE],
        [lb |-> FALSE, body |-> <<{"uk"}, {"", "_", " ", "-"}, {"bass"}>>, rb |-> FALSE],
        [lb |-> FALSE, body |-> <<{"8"}, {"", "_", " ", "-"}, {"bar"}>>, rb |-> FALSE],
        [lb |-> FALSE, body |-> <<{"140"}, {"", "_", " ", "-"}, {"bpm"}>>, rb |-> FALSE] >> >>,
     <<"Trance", <<
        [lb |-> FALSE, body |-> <<{"trance"}>>, rb |-> FALSE],
        [lb |-> FALSE, body |-> <<{"psytrance"}>>, rb |-> FALSE],
        [lb |-> FALSE, body |-> <<{"psy"}, {"", "_", " ", "-"}, {"trance"}>>, rb |-> FALSE],
        [lb |-> FALSE, body |-> <<{"progressive"}, {"", "_", " ", "-"}, {"trance"}>>, rb |-> FALSE],
        [lb |-> FALSE, body |-> <<{"uplifting"}>>, rb |-> FALSE],
        [lb |-> FALSE, body |-> <<{"goa"}>>, rb |-> FALSE],
        [lb |-> FALSE, body |-> <<{"hardstyle"}>>, rb |-> FALSE],
        [lb |-> FALSE, body |-> <<{"hard"}, {"", "_", " ", "-"}, {"dance"}>>, rb |-> FALSE] >> >>,
     <<"Ambient", <<
        [lb |-> FALSE, body |-> <<{"ambient"}>>, rb |-> FALSE],
        [lb |-> FALSE, body |-> <<{"experimental"}>>, rb |-> FALSE],
        [lb |-> FALSE, body |-> <<{"downtempo"}>>, rb |-> FALSE],
        [lb |-> FALSE, body |-> <<{"chill"}, {"", "_", " ", "-"}, {"out"}>>, rb |-> FALSE],
        [lb |-> FALSE, body |-> <<{"idm"}>>, rb |-> FALSE],
        [lb |-> FALSE, body |-> <<{"electronica"}>>, rb |-> FALSE],
        [lb |-> FALSE, body |-> <<{"soundscape"}>>, rb |-> FALSE],
        [lb |-> FALSE, body |-> <<{"drone"}>>, rb |-> FALSE],
        [lb |-> FALSE, body |-> <<{"atmospheric"}>>, rb |-> FALSE] >> >>,
     <<"Disco", <<
        [lb |-> FALSE, body |-> <<{"disco"}>>, rb |-> FALSE],
        [lb |-> FALSE, body |-> <<{"nu"}, {"", "_", " ", "-"}, {"disco"}>>, rb |-> FALSE],
        [lb |-> FALSE, body |-> <<{"funk"}>>, rb |-> FALSE],
        [lb |-> FALSE, body |-> <<{"boogie"}>>, rb |-> FALSE],
        [lb |-> FALSE, body |-> <<{"italo"}>>, rb |-> FALSE],
        [lb |-> FALSE, body |-> <<{"cosmic"}>>, rb |-> FALSE] >> >>,
     <<"Synthwave", <<
        [lb |-> FALSE, body |-> <<{"synthwave"}>>, rb |-> FALSE],
        [lb |-> FALSE, body |-> <<{"retrowave"}>>, rb |-> FALSE],
        [lb |-> FALSE, body |-> <<{"outrun"}>>, rb |-> FALSE],
        [lb |-> FALSE, body |-> <<{"vaporwave"}>>, rb |-> FALSE],
        [lb |-> FALSE, body |-> <<{"80s"}>>, rb |-> FALSE],
        [lb |-> FALSE, body |-> <<{"synth"}, {"", "_", " ", "-"}, {"pop"}>>, rb |-> FALSE],
        [lb |-> FALSE, body |-> <<{"electro"}, {"", "_", " ", "-"}, {"pop"}>>, rb |-> FALSE] >> >>,
     <<"Lo-Fi", <<
        [lb |-> FALSE, body |-> <<{"lo"}, {"", "_", " ", "-"}, {"fi"}>>, rb |-> FALSE],
        [lb |-> FALSE, body |-> <<{"lofi"}>>, rb |-> FALSE],
        [lb |-> FALSE, body |-> <<{"chill"}, {"", "_", " ", "-"}, {"hop"}>>, rb |-> FALSE],
        [lb |-> FALSE, body |-> <<{"chillhop"}>>, rb |-> FALSE],
        [lb |-> FALSE, body |-> <<{"jazzy"}>>, rb |-> FALSE],
        [lb |-> FALSE, body |-> <<{"dusty"}>>, rb |-> FALSE],
        [lb |-> FALSE, body |-> <<{"tape"}>>, rb |-> FALSE],
        [lb |-> FALSE, body |-> <<{"vinyl"}>>, rb |-> FALSE],
        [lb |-> FALSE, body |-> <<{"bedroom"}>>, rb |-> FALSE] >> >>,
     <<"Pop", <<
        [lb |-> FALSE, body |-> <<{"pop"}>>, rb |-> FALSE],
        [lb |-> FALSE, body |-> <<{"edm"}>>, rb |-> FALSE],
        [lb |-> FALSE, body |-> <<{"mainstream"}>>, rb |-> FALSE],
        [lb |-> FALSE, body |-> <<{"radio"}>>, rb |-> FALSE],
        [lb |-> FALSE, body |-> <<{"commercial"}>>, rb |-> FALSE],
        [lb |-> FALSE, body |-> <<{"dance"}, {"", "_", " ", "-"}, {"pop"}>>, rb |-> FALSE],
        [lb |-> FALSE, body |-> <<{"future"}, {"", "_", " ", "-"}, {"pop"}>>, rb |-> FALSE],
        [lb |-> FALSE, body |-> <<{"electro"}, {"", "_", " ", "-"}, {"pop"}>>, rb |-> FALSE] >> >>,
     <<"Drum_Machines", <<
        [lb |-> FALSE, body |-> <<{"808"}>>, rb |-> FALSE],
        [lb |-> FALSE, body |-> <<{"909"}>>, rb |-> FALSE],
        [lb |-> FALSE, body |-> <<{"707"}>>, rb |-> FALSE],
        [lb |-> FALSE, body |-> <<{"727"}>>, rb |-> FALSE],
        [lb |-> FALSE, body |-> <<{"606"}>>, rb |-> FALSE],
        [lb |-> FALSE, body |-> <<{"303"}>>, rb |-> FALSE],
        [lb |-> FALSE, body |-> <<{"cr"}, {"", "_", " ", "-"}, {"78"}>>, rb |-> FALSE],
        [lb |-> FALSE, body |-> <<{"tr"}, {"", "_", " ", "-"}, {"808"}>>, rb |-> FALSE],
        [lb |-> FALSE, body |-> <<{"tr"}, {"", "_", " ", "-"}, {"909"}>>, rb |-> FALSE],
        [lb |-> FALSE, body |-> <<{"linndrum"}>>, rb |-> FALSE],
        [lb |-> FALSE, body |-> <<{"linn"}, {"", "_", " ", "-"}, {"drum"}>>, rb |-> FALSE],
        [lb |-> FALSE, body |-> <<{"dmx"}>>, rb |-> FALSE],
        [lb |-> FALSE, body |-> <<{"oberheim"}>>, rb |-> FALSE],
        [lb |-> FALSE, body |-> <<{"sp"}, {"", "_", " ", "-"}, {"1200"}>>, rb |-> FALSE],
        [lb |-> FALSE, body |-> <<{"sp"}, {"", "_", " ", "-"}, {"12"}>>, rb |-> FALSE],
        [lb |-> FALSE, body |-> <<{"mpc"}>>, rb |-> FALSE],
        [lb |-> FALSE, body |-> <<{"drum"}, {"", "_", " ", "-"}, {"machine"}>>, rb |-> FALSE],
        [lb |-> FALSE, body |-> <<{"vintage"}, {"", "_", " ", "-"}, {"drum"}>>, rb |-> FALSE],
        [lb |-> FALSE, body |-> <<{"analog"}, {"", "_", " ", "-"}, {"drum"}>>, rb |-> FALSE] >> >>
  >>

GENRE_Live ==
  <<
     <<"Rock", <<
        [lb |-> FALSE, body |-> <<{"rock"}>>, rb |-> FALSE],
        [lb |-> FALSE, body |-> <<{"indie"}>>, rb |-> FALSE],
        [lb |-> FALSE, body |-> <<{"alternative"}>>, rb |-> FALSE],
        [lb |-> FALSE, body |-> <<{"metal"}>>, rb |-> FALSE],
        [lb |-> FALSE, body |-> <<{"grunge"}>>, rb |-> FALSE],
        [lb |-> FALSE, body |-> <<{"hard"}, {"", "_", " ", "-"}, {"rock"}>>, rb |-> FALSE],
        [lb |-> FALSE, body |-> <<{"prog"}, {"", "_", " ", "-"}, {"rock"}>>, rb |-> FALSE],
        [lb |-> FALSE, body |-> <<{"classic"}, {"", "_", " ", "-"}, {"rock"}>>, rb |-> FALSE],
        [lb |-> FALSE, body |-> <<{"guitar"}, {"", "_", " ", "-"}, {"driven"}>>, rb |-> FALSE] >> >>,
     <<"Punk", <<
        [lb |-> FALSE, body |-> <<{"punk"}>>, rb |-> FALSE],
        [lb |-> FALSE, body |-> <<{"post"}, {"", "_", " ", "-"}, {"punk"}>>, rb |-> FALSE],
        [lb |-> FALSE, body |-> <<{"new"}, {"", "_", " ", "-"}, {"wave"}>>, rb |-> FALSE],
        [lb |-> FALSE, body |-> <<{"no"}, {"", "_", " ", "-"}, {"wave"}>>, rb |-> FALSE],
        [lb |-> FALSE, body |-> <<{"hardcore"}>>, rb |-> FALSE],
        [lb |-> FALSE, body |-> <<{"pop"}, {"", "_", " ", "-"}, {"punk"}>>, rb |-> FALSE],
        [lb |-> FALSE, body |-> <<{"emo"}>>, rb |-> FALSE],
        [lb |-> FALSE, body |-> <<{"screamo"}>>, rb |-> FALSE] >> >>,
     <<"Darkwave", <<
        [lb |-> FALSE, body |-> <<{"darkwave"}>>, rb |-> FALSE],
        [lb |-> FALSE, body |-> <<{"dark"}, {"", "_", " ", "-"}, {"wave"}>>, rb |-> FALSE],
        [lb |-> FALSE, body |-> <<{"coldwave"}>>, rb |-> FALSE],
        [lb |-> FALSE, body |-> <<{"cold"}, {"", "_", " ", "-"}, {"wave"}>>, rb |-> FALSE],
        [lb |-> FALSE, body |-> <<{"goth"}>>, rb |-> FALSE],
        [lb |-> FALSE, body |-> <<{"gothic"}>>, rb |-> FALSE],
        [lb |-> FALSE, body |-> <<{"deathrock"}>>, rb |-> FALSE],
        [lb |-> FALSE, body |-> <<{"ethereal"}>>, rb |-> FALSE],
        [lb |-> FALSE, body |-> <<{"witch"}, {"", "_", " ", "-"}, {"house"}>>, rb |-> FALSE] >> >>,
     <<"Jazz", <<
        [lb |-> FALSE, body |-> <<{"jazz"}>>, rb |-> FALSE],
        [lb |-> FALSE, body |-> <<{"fusion"}>>, rb |-> FALSE],
        [lb |-> FALSE, body |-> <<{"bebop"}>>, rb |-> FALSE],
        [lb |-> FALSE, body |-> <<{"swing"}>>, rb |-> FALSE],
        [lb |-> FALSE, body |-> <<{"big"}, {"", "_", " ", "-"}, {"band"}>>, rb |-> FALSE],
        [lb |-> FALSE, body |-> <<{"smooth"}, {"", "_", " ", "-"}, {"jazz"}>>, rb |-> FALSE],
        [lb |-> FALSE, body |-> <<{"acid"}, {"", "_", " ", "-"}, {"jazz"}>>, rb |-> FALSE],
        [lb |-> FALSE, body |-> <<{"nu"}, {"", "_", " ", "-"}, {"jazz"}>>, rb |-> FALSE],
        [lb |-> FALSE, body |-> <<{"broken"}, {"", "_", " ", "-"}, {"beat"}>>, rb |-> FALSE] >> >>,
     <<"Soul", <<
        [lb |-> FALSE, body |-> <<{"soul"}>>, rb |-> FALSE],
        [lb |-> FALSE, body |-> <<{"r&b"}>>, rb |-> FALSE],
        [lb |-> FALSE, body |-> <<{"rnb"}>>, rb |-> FALSE],
        [lb |-> FALSE, body |-> <<{"r"}, {"", "_", " ", "-"}, {"and"}, {"", "_", " ", "-"}, {"b"}>>, rb |-> FALSE],
        [lb |-> FALSE, body |-> <<{"motown"}>>, rb |-> FALSE],
        [lb |-> FALSE, body |-> <<{"neo"}, {"", "_", " ", "-"}, {"soul"}>>, rb |-> FALSE],
        [lb |-> FALSE, body |-> <<{"gospel"}>>, rb |-> FALSE],
        [lb |-> FALSE, body |-> <<{"rhythm"}, {"", "_", " ", "-"}, {"and"}, {"", "_", " ", "-"}, {"blues"}>>, rb |-> FALSE] >> >>,
     <<"Dub", <<
        [lb |-> FALSE, body |-> <<{"dub"}>>, rb |-> FALSE],
        [lb |-> FALSE, body |-> <<{"reggae"}>>, rb |-> FALSE],
        [lb |-> FALSE, body |-> <<{"roots"}>>, rb |-> FALSE],
        [lb |-> FALSE, body |-> <<{"dancehall"}>>, rb |-> FALSE],
        [lb |-> FALSE, body |-> <<{"ska"}>>, rb |-> FALSE],
        [lb |-> FALSE, body |-> <<{"rocksteady"}>>, rb |-> FALSE],
        [lb |-> FALSE, body |-> <<{"steppas"}>>, rb |-> FALSE],
        [lb |-> FALSE, body |-> <<{"digital"}, {"", "_", " ", "-"}, {"dub"}>>, rb |-> FALSE] >> >>,
     <<"Blues", <<
        [lb |-> FALSE, body |-> <<{"blues"}>>, rb |-> FALSE],
        [lb |-> FALSE, body |-> <<{"delta"}>>, rb |-> FALSE],
        [lb |-> FALSE, body |-> <<{"chicago"}, {"", "_", " ", "-"}, {"blues"}>>, rb |-> FALSE],
        [lb |-> FALSE, body |-> <<{"electric"}, {"", "_", " ", "-"}, {"blues"}>>, rb |-> FALSE],
        [lb |-> FALSE, body |-> <<{"slide"}, {"", "_", " ", "-"}, {"guitar"}>>, rb |-> FALSE],
        [lb |-> FALSE, body |-> <<{"12"}, {"", "_", " ", "-"}, {"bar"}>>, rb |-> FALSE] >> >>,
     <<"Folk", <<
        [lb |-> FALSE, body |-> <<{"folk"}>>, rb |-> FALSE],
        [lb |-> FALSE, body |-> <<{"country"}>>, rb |-> FALSE],
        [lb |-> FALSE, body |-> <<{"americana"}>>, rb |-> FALSE],
        [lb |-> FALSE, body |-> <<{"acoustic"}>>, rb |-> FALSE],
        [lb |-> FALSE, body |-> <<{"singer"}, {"", "_", " ", "-"}, {"songwriter"}>>, rb |-> FALSE],
        [lb |-> FALSE, body |-> <<{"bluegrass"}>>, rb |-> FALSE],
        [lb |-> FALSE, body |-> <<{"celtic"}>>, rb |-> FALSE],
        [lb |-> FALSE, body |-> <<{"irish"}>>, rb |-> FALSE],
        [lb |-> FALSE, body |-> <<{"appalachian"}>>, rb |-> FALSE] >> >>,
     <<"Classical", <<
        [lb |-> FALSE, body |-> <<{"classical"}>>, rb |-> FALSE],
        [lb |-> FALSE, body |-> <<{"orchestral"}>>, rb |-> FALSE],
        [lb |-> FALSE, body |-> <<{"cinematic"}>>, rb |-> FALSE],
        [lb |-> FALSE, body |-> <<{"film"}, {"", "_", " ", "-"}, {"score"}>>, rb |-> FALSE],
        [lb |-> FALSE, body |-> <<{"strings"}>>, rb |-> FALSE],
        [lb |-> FALSE, body |-> <<{"brass"}>>, rb |-> FALSE],
        [lb |-> FALSE, body |-> <<{"woodwind"}>>, rb |-> FALSE],
        [lb |-> FALSE, body |-> <<{"symphony"}>>, rb |-> FALSE],
        [lb |-> FALSE, body |-> <<{"chamber"}>>, rb |-> FALSE],
        [lb |-> FALSE, body |-> <<{"epic"}>>, rb |-> FALSE],
        [lb |-> FALSE, body |-> <<{"trailer"}>>, rb |-> FALSE],
        [lb |-> FALSE, body |-> <<{"score"}>>, rb |-> FALSE] >> >>,
     <<"World", <<
        [lb |-> FALSE, body |-> <<{"world"}>>, rb |-> FALSE],
        [lb |-> FALSE, body |-> <<{"ethnic"}>>, rb |-> FALSE],
        [lb |-> FALSE, body |-> <<{"latin"}>>, rb |-> FALSE],
        [lb |-> FALSE, body |-> <<{"african"}>>, rb |-> FALSE],
        [lb |-> FALSE, body |-> <<{"afro"}>>, rb |-> FALSE],
        [lb |-> FALSE, body |-> <<{"middle"}, {"", "_", " ", "-"}, {"eastern"}>>, rb |-> FALSE],
        [lb |-> FALSE, body |-> <<{"arabic"}>>, rb |-> FALSE],
        [lb |-> FALSE, body |-> <<{"indian"}>>, rb |-> FALSE],
        [lb |-> FALSE, body |-> <<{"asian"}>>, rb |-> FALSE],
        [lb |-> FALSE, body |-> <<{"brazilian"}>>, rb |-> FALSE],
        [lb |-> FALSE, body |-> <<{"cuban"}>>, rb |-> FALSE],
        [lb |-> FALSE, body |-> <<{"flamenco"}>>, rb |-> FALSE],
        [lb |-> FALSE, body |-> <<{"tribal"}>>, rb |-> FALSE],
        [lb |-> FALSE, body |-> <<{"percussion"}>>, rb |-> FALSE] >> >>,
     <<"Acoustic", <<
        [lb |-> FALSE, body |-> <<{"acoustic"}>>, rb |-> FALSE],
        [lb |-> FALSE, body |-> <<{"live"}, {"", "_", " ", "-"}, {"drum"}>>, rb |-> FALSE],
        [lb |-> FALSE, body |-> <<{"real"}, {"", "_", " ", "-"}, {"drum"}>>, rb |-> FALSE],
        [lb |-> FALSE, body |-> <<{"studio"}, {"", "_", " ", "-"}, {"drum"}>>, rb |-> FALSE],
        [lb |-> FALSE, body |-> <<{"recorded"}>>, rb |-> FALSE],
        [lb |-> FALSE, body |-> <<{"live"}, {"", "_", " ", "-"}, {"kit"}>>, rb |-> FALSE],
        [lb |-> FALSE, body |-> <<{"natural"}>>, rb |-> FALSE],
        [lb |-> FALSE, body |-> <<{"organic"}>>, rb |-> FALSE] >> >>
  >>

GENRE_CATEGORIES == << <<"Electronic", GENRE_Electronic>>, <<"Live", GENRE_Live>> >>

BoundaryChars == " _/"

RECURSIVE Words(_)
\* the strings a pattern body can match
Words(body) ==
  IF Len(body) = 0 THEN {""}
  ELSE {a \o b : a \in body[1], b \in Words(Tail(body))}

\* re.search(pattern, text, re.IGNORECASE) is not None, text already lower case
Search(pat, text) ==
  \E w \in Words(pat.body) :
    \E i \in 1..(Len(text) - Len(w) + 1) :
      /\ SubSeq(text, i, i + Len(w) - 1) = w
      /\ pat.lb => (i = 1 \/ InChars(Char(text, i - 1), BoundaryChars))
      /\ pat.rb => (i + Len(w) - 1 = Len(text)
                      \/ InChars(Char(text, i + Len(w)), BoundaryChars))

AnySearch(pats, text) == \E k \in DOMAIN pats : Search(pats[k], text)

(***************************************************************************)
(* Classifiers.                                                            *)
(***************************************************************************)
loop_patterns ==
  <<"/loops/", "/loop/", "/drum_loops/", "/synth_loops/", "/bass_loops/",
    "/percussion_loops/", "/vocal_loops/", "/fx_loops/", "/melodic_loops/",
    "/music_loops/", "/hat_loops/", "/kick_loops/", "/top_loops/">>

oneshot_patterns ==
  <<"/one_shots/", "/one-shots/", "/oneshots/", "/one_shot/", "/hits/",
    "/drum_hits/", "/samples/", "/drum_one_shots/">>

IsDigit(c) == InChars(c, DigitChars)

\* re.search(r'^\d{2,3}_', filename)
BpmPrefix(filename) ==
  \/ /\ Len(filename) >= 3
     /\ IsDigit(Char(filename, 1)) /\ IsDigit(Char(filename, 2))
     /\ Char(filename, 3) = "_"
  \/ /\ Len(filename) >= 4
     /\ IsDigit(Char(filename, 1)) /\ IsDigit(Char(filename, 2))
     /\ IsDigit(Char(filename, 3)) /\ Char(filename, 4) = "_"

\* _is_loop with the file name rules tried before the one-shot folders
IsLoop_FilenameFirst(path) ==
  LET path_lower == Lower(path)
      filename   == Lower(Stem(path))
  IN  IF \E k \in DOMAIN loop_patterns : Contains(path_lower, loop_patterns[k])
      THEN TRUE
      ELSE IF Contains(filename, "_loop") \/ Contains(filename, "loop_")
      THEN TRUE
      ELSE IF \E k \in DOMAIN oneshot_patterns : Contains(path_lower, oneshot_patterns[k])
      THEN FALSE
      ELSE BpmPrefix(filename)

\* _is_loop with the one-shot folders tried before the loop folders
IsLoop_OneShotFoldersFirst(path) ==
  LET path_lower == Lower(path)
      filename   == Lower(Stem(path))
  IN  IF \E k \in DOMAIN oneshot_patterns : Contains(path_lower, oneshot_patterns[k])
      THEN FALSE
      ELSE IF \E k \in DOMAIN loop_patterns : Contains(path_lower, loop_patterns[k])
      THEN TRUE
      ELSE IF Contains(filename, "_loop") \/ Contains(filename, "loop_")
      THEN TRUE
      ELSE BpmPrefix(filename)

\* SampleOrganizer._is_loop
IsLoop(path) ==
  LET path_lower == Lower(path)
      filename   == Lower(Stem(path))
  IN  IF \E k \in DOMAIN loop_patterns : Contains(path_lower, loop_patterns[k])
      THEN TRUE
      ELSE IF \E k \in DOMAIN oneshot_patterns : Contains(path_lower, oneshot_patterns[k])
      THEN FALSE
      ELSE IF Contains(filename, "_loop") \/ Contains(filename, "loop_")
      THEN TRUE
      ELSE BpmPrefix(filename)

RECURSIVE CollectParents(_, _, _, _)
\* the loop `for parent in path_obj.parents` of _categorize and
\* _detect_genres: append the names not in skip, stop at limit tokens
CollectParents(acc, names, skip, limit) ==
  IF Len(names) = 0 THEN acc
  ELSE LET name == names[1]
           acc2 == IF name # "" /\ Lower(name) \notin skip
                   THEN Append(acc, name) ELSE acc
       IN  IF Len(acc2) >= limit THEN acc2
           ELSE CollectParents(acc2, Tail(names), skip, limit)

CategorizeSkip == {"sounds", "packs", "splice", "samples", "audio"}

CategorizeText(path) ==
  Lower(Join(CollectParents(<<Stem(path)>>, ParentNames(path), CategorizeSkip, 5), " "))

\* the last category, in table order, one of whose patterns matches
FirstMatch_LastWins(categories, k, text) ==
  IF \E j \in k..Len(categories) : AnySearch(categories[j][2], text)
  THEN categories[Max({j \in k..Len(categories) : AnySearch(categories[j][2], text)})][1]
  ELSE "Other"

RECURSIVE FirstMatch(_, _, _)
\* the first category, in table order, one of whose patterns matches
FirstMatch(categories, k, text) ==
  IF k > Len(categories) THEN "Other"
  ELSE IF AnySearch(categories[k][2], text) THEN categories[k][1]
  ELSE FirstMatch(categories, k + 1, text)

\* SampleOrganizer._categorize
Categorize(path, is_loop) ==
  FirstMatch(IF is_loop THEN LOOP_CATEGORIES ELSE ONESHOT_CATEGORIES, 1,
             CategorizeText(path))

GenreSkip ==
  {"sounds", "packs", "splice", "samples", "audio", "users", "isaacfidler"}

\* the pack name and the next path segment (try block of _detect_genres)
GenrePackParts(path) ==
  LET parts == Parts(path)
      idx   == IndexOf(parts, "packs")
  IN  IF idx = 0 \/ idx + 1 > Len(parts) THEN <<>>
      ELSE IF idx + 2 <= Len(parts) THEN <<parts[idx + 1], parts[idx + 2]>>
      ELSE <<parts[idx + 1]>>

GenreText(path) ==
  Lower(Join(CollectParents(GenrePackParts(path), ParentNames(path), GenreSkip, 6), " "))

RECURSIVE GenresOf(_, _, _, _)
\* the genres of one parent category that match, in table order
GenresOf(parent, genres, k, text) ==
  IF k > Len(genres) THEN <<>>
  ELSE (IF AnySearch(genres[k][2], text) THEN << <<parent, genres[k][1]>> >> ELSE <<>>)
       \o GenresOf(parent, genres, k + 1, text)

RECURSIVE GenresIn(_, _, _)
\* the loop `for parent_category, genres in GENRE_CATEGORIES.items()`
GenresIn(categories, c, text) ==
  IF c > Len(categories) THEN <<>>
  ELSE GenresOf(categories[c][1], categories[c][2], 1, text)
       \o GenresIn(categories, c + 1, text)

\* SampleOrganizer._detect_genres
DetectGenres(path) == GenresIn(GENRE_CATEGORIES, 1, GenreText(path))

(***************************************************************************)
(* The modelled environment: the candidate source paths and the contents   *)
(* a source file can have.                                                 *)
(***************************************************************************)
\* number of distinct file contents; the bytes of content c are the decimal
\* digit c
MaxContent == 2

\* number of times the process is killed inside an operation
MaxCrashes == 1

\* capacity of the Observer's event queue
MaxQueue == 2

Kick1 == SPLICE_PACKS_DIR \o "/DarkTechnoVol1/Kicks/Kick_808_Heavy.wav"

Kick2 == SPLICE_PACKS_DIR \o "/DarkTechnoVol1/House_Hits/Kick_808_Heavy.wav"

DrumLoop == SPLICE_PACKS_DIR \o "/SomePack/Loops/Drum_Loop_140bpm.WAV"

Readme == SPLICE_PACKS_DIR \o "/SomePack/readme.txt"

\* the candidate source paths
Sources == {Kick1, Kick2, DrumLoop, Readme}

\* the files the environment creates and deletes; the others are there from
\* the start
Volatile == {Kick1}

\* the files whose content varies from one behaviour to the next; the
\* others have content 1
VaryingContent == {Kick2}

Contents == 1..MaxContent

\* hashlib.md5(source.read_bytes()).hexdigest()[:8] of the contents "1".."4"
Md5Hex8(c) ==
  CASE c = 1 -> "c4ca4238"
    [] c = 2 -> "c81e728d"
    [] c = 3 -> "eccbc87e"
    [] c = 4 -> "a87ff679"

(***************************************************************************)
(* State.                                                                  *)
(***************************************************************************)
VARIABLES
  bytes,      \* the content each source file has whenever it exists
  files,      \* source files on disk: files[s] = 0 (absent) or the content
  fs,         \* links under ORGANIZED_DIR: link path -> [kind, src]
  state,      \* self.state: [wellformed, files], files: source -> link paths
  persisted,  \* STATE_FILE: [kind, files]
  dry_run,    \* self.dry_run
  pc,         \* "down": no organizer object; "up": constructed
  crashes,    \* how many times the process was killed inside an operation
  last,       \* the operation that produced this state and what it returned
  root,       \* SPLICE_PACKS_DIR.exists()
  dirs,       \* the directories that exist at or under ORGANIZED_DIR
  mainpc,     \* where main() is: "idle" when no main() is running
  args,       \* the parsed command line of the running main()
  observer,   \* the watchdog Observer: "none", "running" or "stopping"
  queue,      \* the Observer's event queue: <<kind, path>> in arrival order
  handling    \* the events whose handler has been entered and not left

vars == <<bytes, files, fs, state, persisted, dry_run, pc, crashes, last,
          root, dirs, mainpc, args, observer, queue, handling>>

\* main() and its Observer
mainvars == <<mainpc, args, observer, queue, handling>>

NoFiles == [s \in {} |-> <<>>]

\* argparse: the flags of main() (--verbose changes the log level only)
Flags == {"resync", "stats", "validate", "dry_run", "no_watch"}

NoArgs == [f \in Flags |-> FALSE]

\* the names of a category table
Names(categories) == {categories[i][1] : i \in DOMAIN categories}

\* SampleOrganizer._ensure_directories: d.mkdir(parents=True, exist_ok=True)
EnsuredDirectories ==
  {ORGANIZED_DIR, ORGANIZED_DIR \o "/All",
   ORGANIZED_DIR \o "/One_Shots", ORGANIZED_DIR \o "/Loops",
   ORGANIZED_DIR \o "/Genres", ORGANIZED_DIR \o "/Genres/Other"}
  \cup {ORGANIZED_DIR \o "/One_Shots/" \o cat : cat \in Names(ONESHOT_CATEGORIES) \cup {"Other"}}
  \cup {ORGANIZED_DIR \o "/Loops/" \o cat : cat \in Names(LOOP_CATEGORIES) \cup {"Other"}}
  \cup UNION {{ORGANIZED_DIR \o "/Genres/" \o GENRE_CATEGORIES[c][1]}
              \cup {ORGANIZED_DIR \o "/Genres/" \o GENRE_CATEGORIES[c][1] \o "/" \o genre :
                      genre \in Names(GENRE_CATEGORIES[c][2])} : c \in DOMAIN GENRE_CATEGORIES}

EmptyState == [wellformed |-> TRUE, files |-> NoFiles]

Keys(st) == DOMAIN st.files

\* what the program can change: the world of one operation
World == [state |-> state, fs |-> fs, persisted |-> persisted]

Outcome(w, ret, count, fatal) == [w |-> w, ret |-> ret, count |-> count, fatal |-> fatal]

\* the record of an operation: `before` is the Link Record entry its
\* argument had when it was called, `follows` tells that a remove directly
\* follows a process of the same path that returned True, or that an
\* initial_sync directly follows an initial_sync that returned, `dropped`
\* is the set of keys a validate took out of the Link Record
Done(op, arg, o) ==
  [op |-> op, arg |-> arg, ret |-> o.ret, count |-> o.count, fatal |-> o.fatal,
   loaded |-> "", flag |-> FALSE, value |-> "", genres |-> <<>>,
   before |-> IF arg \in Keys(state) THEN state.files[arg] ELSE <<>>,
   follows |-> \/ (op = "remove" /\ last.op = "process" /\ last.arg = arg /\ last.ret)
               \/ (op = "initial_sync" /\ last.op = "initial_sync" /\ ~last.fatal),
   dropped |-> IF op = "validate" THEN Keys(state) \ Keys(o.w.state) ELSE {}]

(***************************************************************************)
(* File system primitives.                                                 *)
(***************************************************************************)
\* Path.exists() of a source path
SourceExists(s) == s \in DOMAIN files /\ files[s] # 0

\* Path.is_symlink() of a path of the output tree
IsSymlink(tree, p) == p \in DOMAIN tree /\ tree[p].kind = "symlink"

\* Path.exists() of a path of the output tree (follows symbolic links)
LinkExists(tree, p) ==
  /\ p \in DOMAIN tree
  /\ tree[p].kind = "symlink" => SourceExists(tree[p].src)

\* Path.is_file() of a path of the output tree
IsFile(tree, p) == LinkExists(tree, p)

\* Path.unlink()
Unlink(tree, p) == [q \in DOMAIN tree \ {p} |-> tree[q]]

\* os.link(source, link)
OsLink(tree, source, link) ==
  [q \in DOMAIN tree \cup {link} |->
     IF q = link THEN [kind |-> "hard", src |-> source] ELSE tree[q]]

\* SampleOrganizer._create_link
CreateLink(tree, source, link) ==
  LET cleared == IF LinkExists(tree, link) \/ IsSymlink(tree, link)
                 THEN Unlink(tree, link) ELSE tree
  IN  OsLink(cleared, source, link)

\* _save_state that writes nothing
SaveState_Skip(w) == w

\* SampleOrganizer._save_state
SaveState(w) ==
  IF dry_run THEN w
  ELSE [w EXCEPT !.persisted = [kind |-> "record", files |-> w.state.files]]

\* _load_state raises: read_text() fails with an error that is not a
\* json.JSONDecodeError (OSError, UnicodeDecodeError)
LoadRaises(file) == file.kind = "unreadable"

\* SampleOrganizer._load_state, when it returns
LoadState(file) ==
  CASE file.kind = "absent"       -> EmptyState
    [] file.kind = "record"       -> [wellformed |-> TRUE, files |-> file.files]
    [] file.kind = "invalid_json" -> EmptyState
    [] file.kind = "not_record"   -> [wellformed |-> FALSE, files |-> NoFiles]

(***************************************************************************)
(* Unique Name Generator.                                                  *)
(***************************************************************************)
\* the characters of U+00A0..U+00FF that \w of a str pattern matches
Latin1WordChars ==
  "ª²³µ¹º¼½¾ÀÁÂÃÄÅÆÇÈÉÊËÌÍÎÏÐÑÒÓÔÕÖØÙÚÛÜÝÞßàáâãäåæçèéêëìíîïðñòóôõöøùúûüýþÿ"

\* the characters \w and "-" of the modelled alphabet (ASCII and Latin-1)
WordChars == UpperChars \o LowerChars \o DigitChars \o Latin1WordChars \o "_-"

RECURSIVE Sanitize(_)
\* re.sub(r'[^\w\-]', '_', pack_name)
Sanitize(s) ==
  IF s = "" THEN ""
  ELSE (IF InChars(Char(s, 1), WordChars) THEN Char(s, 1) ELSE "_")
       \o Sanitize(SubSeq(s, 2, Len(s)))

PackNameLimit == 30

\* pack_name of _generate_unique_name
PackName(source) ==
  LET parts == Parts(source)
      idx   == IndexOf(parts, "packs")
  IN  IF idx = 0 \/ idx + 1 > Len(parts) THEN "Unknown" ELSE parts[idx + 1]

\* safe_pack
SafePack(source) ==
  LET clean == Sanitize(PackName(source))
  IN  IF Len(clean) > PackNameLimit THEN SubSeq(clean, 1, PackNameLimit) ELSE clean

\* base_name: {safe_pack}__{stem}{suffix}
CandidateName(source) == SafePack(source) \o "__" \o Stem(source) \o Suffix(source)

\* the collision name without the content hash
HashedName_NoHash(source, content) == CandidateName(source)

\* {safe_pack}__{stem}_{content_hash}{suffix}
HashedName(source, content) ==
  SafePack(source) \o "__" \o Stem(source) \o "_" \o Md5Hex8(content) \o Suffix(source)

AllLink(name) == ORGANIZED_DIR \o "/All/" \o name

\* the genre links of process_file with the Genres/Other link added in
\* every case
GenreLinks_AlwaysOther(genres, unique_name) ==
  [k \in 1..Len(genres) |->
     ORGANIZED_DIR \o "/Genres/" \o genres[k][1] \o "/" \o genres[k][2]
       \o "/" \o unique_name]
  \o <<ORGANIZED_DIR \o "/Genres/Other/" \o unique_name>>

\* the genre links of process_file
GenreLinks(genres, unique_name) ==
  IF Len(genres) > 0
  THEN [k \in 1..Len(genres) |->
          ORGANIZED_DIR \o "/Genres/" \o genres[k][1] \o "/" \o genres[k][2]
            \o "/" \o unique_name]
  ELSE <<ORGANIZED_DIR \o "/Genres/Other/" \o unique_name>>

\* symlinks_created of process_file with the category link created first
LinkPaths_CategoryFirst(source, unique_name) ==
  LET is_loop  == IsLoop(source)
      category == Categorize(source, is_loop)
  IN  <<ORGANIZED_DIR \o (IF is_loop THEN "/Loops/" ELSE "/One_Shots/")
          \o category \o "/" \o unique_name,
        AllLink(unique_name)>>
      \o GenreLinks(DetectGenres(source), unique_name)

\* symlinks_created of process_file, in creation order
LinkPaths(source, unique_name) ==
  LET is_loop  == IsLoop(source)
      category == Categorize(source, is_loop)
  IN  <<AllLink(unique_name),
        ORGANIZED_DIR \o (IF is_loop THEN "/Loops/" ELSE "/One_Shots/")
          \o category \o "/" \o unique_name>>
      \o GenreLinks(DetectGenres(source), unique_name)

(***************************************************************************)
(* What depends on the text of a path only is tabulated once per candidate *)
(* source: the operations below look the values up.                        *)
(***************************************************************************)
\* source_path.suffix.lower() == '.wav'
HasWavSuffix == [s \in Sources |-> Lower(Suffix(s)) = ".wav"]

\* base_name of _generate_unique_name
base_name == [s \in Sources |-> CandidateName(s)]

\* the hash-suffixed name of a source for each content
hashed_name == [s \in Sources |-> [c \in Contents |-> HashedName(s, c)]]

\* the link paths process_file creates for a source under a unique name
PlannedLinks ==
  [s \in Sources |->
     [n \in {base_name[s]} \cup {hashed_name[s][c] : c \in Contents} |->
        LinkPaths(s, n)]]

\* every link path the program can create for the candidate sources
LinkUniverse ==
  UNION {UNION {Range(links) : links \in Range(plan)} : plan \in Range(PlannedLinks)}

\* Path(link).name of the link paths of the model
link_name == [p \in LinkUniverse |-> BaseName(p)]

\* is_loop, category and genres of process_file for the candidate sources
loop_flag == [s \in Sources |-> IsLoop(s)]

category_of == [s \in Sources |-> Categorize(s, loop_flag[s])]

genres_of == [s \in Sources |-> DetectGenres(s)]

\* target of _generate_unique_name: ORGANIZED_DIR / "All" / base_name
target == [s \in Sources |-> AllLink(base_name[s])]

\* _generate_unique_name returning the plain name for a known key
GenerateUniqueName_PlainForKnown(w, source) ==
  IF source \in Keys(w.state) THEN base_name[source]
  ELSE IF ~LinkExists(w.fs, target[source]) THEN base_name[source]
  ELSE hashed_name[source][files[source]]

\* _generate_unique_name raises: source.read_bytes() of a file that is gone
NameRaises(w, source) ==
  /\ ~(~LinkExists(w.fs, target[source]) /\ source \notin Keys(w.state))
  /\ ~(source \in Keys(w.state) /\ Len(w.state.files[source]) > 0)
  /\ ~SourceExists(source)

\* SampleOrganizer._generate_unique_name
GenerateUniqueName(w, source) ==
  LET known == source \in Keys(w.state)
  IN  IF ~LinkExists(w.fs, target[source]) /\ ~known THEN base_name[source]
      ELSE IF known /\ Len(w.state.files[source]) > 0
           THEN BaseName(w.state.files[source][1])
      ELSE hashed_name[source][files[source]]

(***************************************************************************)
(* Link-State Reconciler.                                                  *)
(***************************************************************************)
RECURSIVE CreateLinks(_, _, _, _)
\* the first k calls of _create_link made by process_file
CreateLinks(tree, source, links, k) ==
  IF k = 0 THEN tree
  ELSE CreateLink(CreateLinks(tree, source, links, k - 1), source, links[k])

\* process_file from the first _create_link on: the links are created, the
\* key is recorded, the state is saved
LinkAndRecord(w, source, links) ==
  Outcome(SaveState([state |-> [w.state EXCEPT !.files =
                                  [s \in Keys(w.state) \cup {source} |->
                                     IF s = source THEN links ELSE w.state.files[s]]],
                     fs |-> CreateLinks(w.fs, source, links, Len(links)),
                     persisted |-> w.persisted]),
          TRUE, 0, FALSE)

\* process_file without the `if source_str in self.state["files"]` check
ProcessFile_NoKnownCheck(w, source) ==
  IF ~HasWavSuffix[source] THEN Outcome(w, FALSE, 0, FALSE)
  ELSE IF ~SourceExists(source) THEN Outcome(w, FALSE, 0, FALSE)
  ELSE IF ~w.state.wellformed THEN Outcome(w, FALSE, 0, TRUE)
  ELSE IF dry_run THEN Outcome(w, TRUE, 0, FALSE)
  ELSE
    LinkAndRecord(w, source, PlannedLinks[source][GenerateUniqueName(w, source)])

\* SampleOrganizer.process_file
ProcessFile(w, source) ==
  IF ~HasWavSuffix[source] THEN Outcome(w, FALSE, 0, FALSE)
  ELSE IF ~SourceExists(source) THEN Outcome(w, FALSE, 0, FALSE)
  ELSE IF ~w.state.wellformed THEN Outcome(w, FALSE, 0, TRUE)
  ELSE IF source \in Keys(w.state) THEN Outcome(w, FALSE, 0, FALSE)
  ELSE IF dry_run THEN Outcome(w, TRUE, 0, FALSE)
  ELSE
    LinkAndRecord(w, source, PlannedLinks[source][GenerateUniqueName(w, source)])

\* if link.is_symlink(): link.unlink()
UnlinkIfSymlink(tree, link) == IF IsSymlink(tree, link) THEN Unlink(tree, link) ELSE tree

RECURSIVE UnlinkSymlinks(_, _, _)
\* for link_path in links: if link.is_symlink(): link.unlink()
UnlinkSymlinks(tree, links, k) ==
  IF k = 0 THEN tree
  ELSE UnlinkIfSymlink(UnlinkSymlinks(tree, links, k - 1), links[k])

\* SampleOrganizer.remove_file
RemoveFile(w, source) ==
  IF ~w.state.wellformed THEN Outcome(w, FALSE, 0, TRUE)
  ELSE IF source \notin Keys(w.state) THEN Outcome(w, FALSE, 0, FALSE)
  ELSE IF dry_run THEN Outcome(w, FALSE, 0, FALSE)
  ELSE
    Outcome(SaveState([state |-> [w.state EXCEPT !.files =
                                    [s \in Keys(w.state) \ {source} |-> w.state.files[s]]],
                       fs |-> UnlinkSymlinks(w.fs, w.state.files[source],
                                             Len(w.state.files[source])),
                       persisted |-> w.persisted]),
            FALSE, 0, FALSE)

\* a source key whose file is gone (validate: `if not source.exists()`)
MissingKeys(st) == {s \in Keys(st) : ~SourceExists(s)}

\* validate unlinking every recorded link that exists
StaleLinks_AllRecorded(w) ==
  {p \in DOMAIN w.fs : \E s \in Keys(w.state) : p \in Range(w.state.files[s])}

\* the links validate unlinks: recorded for a missing key and is_symlink()
StaleLinks(w) ==
  {p \in DOMAIN w.fs :
     /\ \E s \in MissingKeys(w.state) : p \in Range(w.state.files[s])
     /\ IsSymlink(w.fs, p)}

\* SampleOrganizer.validate
Validate(w) ==
  IF ~w.state.wellformed THEN Outcome(w, FALSE, 0, TRUE)
  ELSE
    Outcome(SaveState([state |-> [w.state EXCEPT !.files =
                                    [s \in Keys(w.state) \ MissingKeys(w.state) |->
                                       w.state.files[s]]],
                       fs |-> [q \in DOMAIN w.fs \ StaleLinks(w) |-> w.fs[q]],
                       persisted |-> w.persisted]),
            FALSE, Cardinality(StaleLinks(w)), FALSE)

StartsWith(s, prefix) ==
  Len(s) >= Len(prefix) /\ SubSeq(s, 1, Len(prefix)) = prefix

EndsWith(s, suffix) ==
  Len(s) >= Len(suffix) /\ SubSeq(s, Len(s) - Len(suffix) + 1, Len(s)) = suffix

\* a path SPLICE_PACKS_DIR.rglob("*.wav") can yield: below the watched root,
\* the name matching *.wav (case-sensitively)
MatchesRglob == 
  [s \in Sources |-> /\ StartsWith(s, SPLICE_PACKS_DIR \o "/")
                     /\ EndsWith(BaseName(s), ".wav")]

\* wav_files of initial_sync, as a set
RglobWav == {s \in Sources : SourceExists(s) /\ MatchesRglob[s]}

\* the orders in which rglob can yield a set of files
Orders(S) == {o \in [1..Cardinality(S) -> S] : Range(o) = S}

\* a loop that counts every file it visits
Counted_Every(count, step) ==
  Outcome(step.w, FALSE, count + 1, step.fatal)

\* `if self.process_file(wav_file): count += 1`
Counted(count, step) ==
  Outcome(step.w, FALSE, count + (IF step.ret THEN 1 ELSE 0), step.fatal)

\* one iteration of the loop of initial_sync
ScanStep(before, wav_file) ==
  IF before.fatal THEN before
  ELSE Counted(before.count, ProcessFile(before.w, wav_file))

RECURSIVE Scan(_, _, _)
\* the first k iterations of the loop of initial_sync over wav_files
Scan(w, wav_files, k) ==
  IF k = 0 THEN Outcome(w, FALSE, 0, FALSE)
  ELSE ScanStep(Scan(w, wav_files, k - 1), wav_files[k])

\* SampleOrganizer.initial_sync
InitialSync(w, wav_files) == Scan(w, wav_files, Len(wav_files))

ManagedFolders == <<"All", "One_Shots", "Loops", "Genres">>

\* index in ManagedFolders of the folder a path of the output tree is under
FolderOf(p) ==
  LET under == {k \in DOMAIN ManagedFolders :
                  StartsWith(p, ORGANIZED_DIR \o "/" \o ManagedFolders[k] \o "/")}
  IN  IF under = {} THEN 0 ELSE Min(under)

\* FolderOf, tabulated for the link paths of the model
Folder == [p \in LinkUniverse |-> FolderOf(p)]

\* the first loop of resync testing is_symlink() only, as remove_file does
Deletable_SymlinksOnly(tree) ==
  {p \in DOMAIN tree : Folder[p] # 0 /\ IsSymlink(tree, p)}

\* what the first loop of resync deletes
Deletable(tree) ==
  {p \in DOMAIN tree : Folder[p] # 0 /\ (IsFile(tree, p) \/ IsSymlink(tree, p))}

\* resync without `self.state = {"files": {}}`
ClearAll_KeepState(w) ==
  SaveState([state |-> w.state,
             fs |-> [q \in DOMAIN w.fs \ Deletable(w.fs) |-> w.fs[q]],
             persisted |-> w.persisted])

\* resync up to and including `self._save_state()`
ClearAll(w) ==
  SaveState([state |-> EmptyState,
             fs |-> [q \in DOMAIN w.fs \ Deletable(w.fs) |-> w.fs[q]],
             persisted |-> w.persisted])

\* SampleOrganizer.resync
Resync(w, wav_files) == InitialSync(ClearAll(w), wav_files)

\* the bucket show_stats counts a link path in; <<"", "">> when it counts none
Bucket(link) ==
  LET parts   == Parts(link)
      org_idx == IndexOf(parts, "Splice-Organized")
      n       == Len(parts)
  IN  IF org_idx = 0 \/ org_idx + 1 > n THEN <<"", "">>
      ELSE LET type_folder == parts[org_idx + 1] IN
        IF type_folder = "One_Shots" /\ org_idx + 2 <= n
          THEN <<"One_Shots", parts[org_idx + 2]>>
        ELSE IF type_folder = "Loops" /\ org_idx + 2 <= n
          THEN <<"Loops", parts[org_idx + 2]>>
        ELSE IF type_folder = "Genres" /\ org_idx + 2 <= n
          THEN LET parent == parts[org_idx + 2] IN
               IF parent = "Electronic" /\ org_idx + 3 <= n
                 THEN <<"Genres_Electronic", parts[org_idx + 3]>>
               ELSE IF parent = "Live" /\ org_idx + 3 <= n
                 THEN <<"Genres_Live", parts[org_idx + 3]>>
               ELSE IF parent = "Other" THEN <<"Genres_Other", "">>
               ELSE <<"", "">>
        ELSE <<"", "">>

\* the stats dictionary of show_stats: Total and the count of every bucket
ShowStats(st) ==
  LET used  == UNION {{<<s, i>> : i \in DOMAIN st.files[s]} : s \in Keys(st)}
      named == {Bucket(st.files[sl[1]][sl[2]]) : sl \in used} \ {<<"", "">>}
  IN  [Total   |-> Cardinality(Keys(st)),
       buckets |-> [b \in named |->
                      Cardinality({sl \in used : Bucket(st.files[sl[1]][sl[2]]) = b})]]

(***************************************************************************)
(* The state machine.                                                      *)
(***************************************************************************)
Note(op, arg) ==
  [op |-> op, arg |-> arg, ret |-> FALSE, count |-> 0, fatal |-> FALSE, loaded |-> "",
   flag |-> FALSE, value |-> "", genres |-> <<>>, before |-> <<>>, follows |-> FALSE,
   dropped |-> {}]

Init ==
  /\ bytes \in {b \in [Sources -> Contents] : \A s \in Sources \ VaryingContent : b[s] = 1}
  /\ files = [s \in Sources |-> IF s \in Volatile THEN 0 ELSE bytes[s]]
  /\ fs = [p \in {} |-> [kind |-> "hard", src |-> ""]]
  /\ state = EmptyState
  /\ persisted = [kind |-> "absent", files |-> NoFiles]
  /\ dry_run = FALSE
  /\ pc = "down"
  /\ crashes = 0
  /\ last = Note("init", "")
  /\ root = TRUE
  /\ dirs = {}
  /\ mainpc = "idle"
  /\ args = NoArgs
  /\ observer = "none"
  /\ queue = <<>>
  /\ handling = {}

\* the process ends: the organizer object and its in-memory table are gone
Halt ==
  /\ pc' = "down"
  /\ state' = EmptyState
  /\ dry_run' = FALSE

\* the effect of an operation of the running organizer; an uncaught
\* exception ends the process
Effect(op, arg, o) ==
  /\ fs' = o.w.fs
  /\ persisted' = o.w.persisted
  /\ last' = Done(op, arg, o)
  /\ UNCHANGED <<bytes, files, crashes, root, dirs>>
  /\ IF o.fatal THEN Halt
     ELSE /\ state' = o.w.state
          /\ UNCHANGED <<pc, dry_run>>

\* an operation called on the organizer object directly
Apply(op, arg, o) ==
  /\ Effect(op, arg, o)
  /\ UNCHANGED mainvars

\* SampleOrganizer.__init__: _load_state, then _ensure_directories
Construct(d) ==
  /\ pc = "down"
  /\ last' = [Note("start", "") EXCEPT !.fatal = LoadRaises(persisted),
                                       !.loaded = persisted.kind]
  /\ IF LoadRaises(persisted)
     THEN UNCHANGED <<pc, state, dry_run, dirs>>
     ELSE /\ pc' = "up"
          /\ state' = LoadState(persisted)
          /\ dry_run' = d
          /\ dirs' = dirs \cup EnsuredDirectories
  /\ UNCHANGED <<bytes, files, fs, persisted, crashes, root>>

\* an organizer object is constructed directly
Start(d) ==
  /\ Construct(d)
  /\ UNCHANGED mainvars

\* the process exits or is killed between two operations
Exit ==
  /\ pc = "up"
  /\ Halt
  /\ last' = Note("exit", "")
  /\ UNCHANGED <<bytes, files, fs, persisted, crashes, root, dirs, mainvars>>

\* process_file(source): on_created, or a direct call
Process(source) ==
  /\ pc = "up"
  /\ Apply("process", source, ProcessFile(World, source))

\* remove_file(source): on_deleted, or a direct call
Remove(source) ==
  /\ pc = "up"
  /\ Apply("remove", source, RemoveFile(World, source))

DoValidate ==
  /\ pc = "up"
  /\ Apply("validate", "", Validate(World))

DoInitialSync ==
  /\ pc = "up"
  /\ \E wav_files \in Orders(RglobWav) :
       Apply("initial_sync", "", InitialSync(World, wav_files))

DoResync ==
  /\ pc = "up"
  /\ \E wav_files \in Orders(RglobWav) :
       Apply("resync", "", Resync(World, wav_files))

\* show_stats reads self.state["files"] and changes nothing
DoStats ==
  /\ pc = "up"
  /\ Apply("stats", "", Outcome(World, FALSE, 0, ~state.wellformed))

(***************************************************************************)
(* Interruption: the process is killed inside an operation.  The effects   *)
(* of the statements executed so far remain on disk.                       *)
(***************************************************************************)
\* process_file(source) gets as far as creating links
WouldLink(w, source) ==
  /\ ~dry_run
  /\ HasWavSuffix[source]
  /\ SourceExists(source)
  /\ w.state.wellformed
  /\ source \notin Keys(w.state)

\* the world after the first k _create_link calls of process_file
PartialProcess(w, source, links, k) ==
  [w EXCEPT !.fs = CreateLinks(w.fs, source, links, k)]

Killed(op, arg, w) ==
  /\ crashes < MaxCrashes
  /\ crashes' = crashes + 1
  /\ fs' = w.fs
  /\ persisted' = w.persisted
  /\ last' = Note(op, arg)
  /\ Halt
  /\ UNCHANGED <<bytes, files, root, dirs, mainvars>>

\* killed while creating `links`: after k of them, before the Link Record
\* is updated
KilledLinking(op, w, source, links) ==
  \E k \in 1..Len(links) : Killed(op, source, PartialProcess(w, source, links, k))

\* killed in process_file(source) called on the world w
KilledInProcess(op, w, source) ==
  /\ WouldLink(w, source)
  /\ KilledLinking(op, w, source, PlannedLinks[source][GenerateUniqueName(w, source)])

ProcessCrash(source) ==
  /\ pc = "up"
  /\ KilledInProcess("crash_process", World, source)

\* killed in the iteration of the scan that follows `before`
KilledInScan(op, before, wav_file) ==
  /\ ~before.fatal
  /\ KilledInProcess(op, before.w, wav_file)

\* killed in the scan of initial_sync: n files done, k links of the next
ScanCrash(op, w) ==
  \E wav_files \in Orders(RglobWav) :
    \E n \in 0..(Len(wav_files) - 1) :
      KilledInScan(op, Scan(w, wav_files, n), wav_files[n + 1])

InitialSyncCrash ==
  /\ pc = "up"
  /\ ScanCrash("crash_initial_sync", World)

\* the sets of links the deletion loop of resync has removed when it has
\* emptied the first k folders of ManagedFolders (the model kills resync
\* between two folders)
DeletedSoFar(tree) ==
  {{p \in Deletable(tree) : Folder[p] <= k} : k \in DOMAIN ManagedFolders} \ {{}}

\* killed in resync while it deletes links, before the state is cleared
ResyncDeleteCrash ==
  /\ pc = "up"
  /\ \E D \in DeletedSoFar(fs) :
       Killed("crash_resync", "",
              [World EXCEPT !.fs = [q \in DOMAIN fs \ D |-> fs[q]]])

\* killed in resync during the scan that follows the clearing
ResyncScanCrash ==
  /\ pc = "up"
  /\ ScanCrash("crash_resync_scan", ClearAll(World))

(***************************************************************************)
(* Environment.                                                            *)
(***************************************************************************)
\* observer.schedule(event_handler, SPLICE_PACKS_DIR, recursive=True): while
\* the Observer runs, a change under the watched root is queued as an event
Emit(kind, path) ==
  /\ observer = "running" => Len(queue) < MaxQueue
  /\ queue' = IF observer = "running" THEN Append(queue, <<kind, path>>) ELSE queue

CreateSource(s) ==
  /\ root
  /\ files[s] = 0
  /\ files' = [files EXCEPT ![s] = bytes[s]]
  /\ Emit("created", s)
  /\ last' = Note("create_source", "")
  /\ UNCHANGED <<bytes, fs, state, persisted, dry_run, pc, crashes,
                 root, dirs, mainpc, args, observer, handling>>

DeleteSource(s) ==
  /\ files[s] # 0
  /\ files' = [files EXCEPT ![s] = 0]
  /\ Emit("deleted", s)
  /\ last' = Note("delete_source", "")
  /\ UNCHANGED <<bytes, fs, state, persisted, dry_run, pc, crashes,
                 root, dirs, mainpc, args, observer, handling>>

DamagedKinds == {"invalid_json", "not_record", "unreadable"}

\* the state file is damaged while the organizer is not running
DamageStateFile(kind) ==
  /\ pc = "down"
  /\ persisted' = [kind |-> kind, files |-> NoFiles]
  /\ last' = Note("damage_state_file", "")
  /\ UNCHANGED <<bytes, files, fs, state, dry_run, pc, crashes, root, dirs, mainvars>>

\* the organizer in normal operation, with and without --dry-run
Next ==
  \/ \E d \in BOOLEAN : Start(d)
  \/ Exit
  \/ \E s \in Sources : Process(s)
  \/ \E s \in Sources : Remove(s)
  \/ DoValidate
  \/ DoInitialSync
  \/ DoResync
  \/ DoStats
  \/ \E s \in Volatile : CreateSource(s)
  \/ \E s \in Volatile : DeleteSource(s)

Spec == Init /\ [][Next]_vars

\* the files whose events arrive in the runs that are killed: the ones the
\* scans discover too
CrashSources == {Kick1, Kick2}

\* the organizer without --dry-run, killed inside an operation at most
\* MaxCrashes times
NextCrash ==
  \/ Start(FALSE)
  \/ Exit
  \/ \E s \in CrashSources : Process(s)
  \/ \E s \in CrashSources : Remove(s)
  \/ DoValidate
  \/ DoInitialSync
  \/ DoResync
  \/ DoStats
  \/ \E s \in CrashSources : ProcessCrash(s)
  \/ InitialSyncCrash
  \/ ResyncDeleteCrash
  \/ ResyncScanCrash
  \/ \E s \in Volatile : CreateSource(s)
  \/ \E s \in Volatile : DeleteSource(s)

SpecCrash == Init /\ [][NextCrash]_vars

\* the organizer without --dry-run, its state file damaged between two runs
NextStartup ==
  \/ Start(FALSE)
  \/ Exit
  \/ \E s \in Sources : Process(s)
  \/ \E s \in Sources : Remove(s)
  \/ DoValidate
  \/ DoInitialSync
  \/ DoResync
  \/ DoStats
  \/ \E s \in Volatile : CreateSource(s)
  \/ \E s \in Volatile : DeleteSource(s)
  \/ \E kind \in DamagedKinds : DamageStateFile(kind)

SpecStartup == Init /\ [][NextStartup]_vars

\* self._generate_unique_name(source) called on its own; it changes nothing
CallGenerateUniqueName(source) ==
  /\ pc = "up"
  /\ state.wellformed
  /\ last' = [Note("unique_name", source) EXCEPT
                !.fatal = NameRaises(World, source),
                !.value = IF NameRaises(World, source) THEN ""
                          ELSE GenerateUniqueName(World, source)]
  /\ IF NameRaises(World, source) THEN Halt ELSE UNCHANGED <<pc, state, dry_run>>
  /\ UNCHANGED <<bytes, files, fs, persisted, crashes, root, dirs, mainvars>>

\* the organizer in normal operation and the Unique Name Generator called
\* between two operations
NextNaming ==
  \/ Next
  \/ \E s \in Sources : CallGenerateUniqueName(s)

SpecNaming == Init /\ [][NextNaming]_vars

(***************************************************************************)
(* main(): the program run from its command line.  The operations of the   *)
(* main thread and the handlers of the Observer's thread take time: each   *)
(* is entered in one step and has its effect when it ends.                 *)
(***************************************************************************)
\* args = parser.parse_args()
MainParse(a) ==
  /\ mainpc = "idle"
  /\ pc = "down"
  /\ mainpc' = "setup_logging"
  /\ args' = a
  /\ last' = Note("parse_args", "")
  /\ UNCHANGED <<bytes, files, fs, state, persisted, dry_run, pc, crashes,
                 root, dirs, observer, queue, handling>>

\* setup_logging: LOG_FILE.parent.mkdir(parents=True, exist_ok=True)
MainSetupLogging ==
  /\ mainpc = "setup_logging"
  /\ dirs' = dirs \cup {ORGANIZED_DIR}
  /\ mainpc' = "check_root"
  /\ last' = Note("setup_logging", "")
  /\ UNCHANGED <<bytes, files, fs, state, persisted, dry_run, pc, crashes,
                 root, args, observer, queue, handling>>

\* if not SPLICE_PACKS_DIR.exists(): logger.error(...); sys.exit(1)
MainCheckRoot ==
  /\ mainpc = "check_root"
  /\ last' = [Note("check_root", "") EXCEPT !.fatal = ~root]
  /\ mainpc' = IF root THEN "construct" ELSE "idle"
  /\ args' = IF root THEN args ELSE NoArgs
  /\ UNCHANGED <<bytes, files, fs, state, persisted, dry_run, pc, crashes,
                 root, dirs, observer, queue, handling>>

\* organizer = SampleOrganizer(dry_run=args.dry_run)
MainConstruct ==
  /\ mainpc = "construct"
  /\ Construct(args.dry_run)
  /\ mainpc' = IF LoadRaises(persisted) THEN "idle" ELSE "call"
  /\ args' = IF LoadRaises(persisted) THEN NoArgs ELSE args
  /\ UNCHANGED <<observer, queue, handling>>

\* the operation main() calls for its flags
MainOperation(a) ==
  IF a.stats THEN "stats"
  ELSE IF a.validate THEN "validate"
  ELSE IF a.resync THEN "resync"
  ELSE "initial_sync"

OperationOutcome(op, w, wav_files) ==
  CASE op = "stats"    -> Outcome(w, FALSE, 0, ~w.state.wellformed)
    [] op = "validate" -> Validate(w)
    [] op = "resync"   -> Resync(w, wav_files)
    [] OTHER           -> InitialSync(w, wav_files)

\* main() enters organizer.show_stats / validate / resync / initial_sync
MainCall ==
  /\ mainpc = "call"
  /\ mainpc' = "in_operation"
  /\ last' = Note("call", MainOperation(args))
  /\ UNCHANGED <<bytes, files, fs, state, persisted, dry_run, pc, crashes,
                 root, dirs, args, observer, queue, handling>>

MainFinish(op, o) ==
  /\ Effect(op, "", o)
  /\ mainpc' = IF o.fatal THEN "idle" ELSE "returned"
  /\ args' = IF o.fatal THEN NoArgs ELSE args
  /\ UNCHANGED <<observer, queue, handling>>

\* the operation runs to its end
MainReturn ==
  /\ mainpc = "in_operation"
  /\ \E wav_files \in Orders(RglobWav) :
       MainFinish(MainOperation(args),
                  OperationOutcome(MainOperation(args), World, wav_files))

\* `return` after --stats, --validate, or a sync with --no-watch
Returns(a) == a.stats \/ a.validate \/ a.no_watch

MainExit ==
  /\ mainpc = "returned"
  /\ Returns(args)
  /\ Halt
  /\ mainpc' = "idle"
  /\ args' = NoArgs
  /\ last' = Note("exit", "")
  /\ UNCHANGED <<bytes, files, fs, persisted, crashes, root, dirs,
                 observer, queue, handling>>

\* observer.schedule(...); observer.start()
ObserverStart ==
  /\ mainpc = "returned"
  /\ ~Returns(args)
  /\ observer' = "running"
  /\ mainpc' = "watching"
  /\ last' = Note("observer_start", "")
  /\ UNCHANGED <<bytes, files, fs, state, persisted, dry_run, pc, crashes,
                 root, dirs, args, queue, handling>>

\* the Observer dispatches every event from one thread: no handler is
\* entered while another has not returned
CanDispatch_Always(entered) == TRUE

\* the Observer dispatches every event from one thread: no handler is
\* entered while another has not returned
CanDispatch(entered) == entered = {}

\* the Observer's thread takes the next event and enters its handler
Dispatch ==
  /\ observer = "running"
  /\ queue # <<>>
  /\ CanDispatch(handling)
  /\ handling' = handling \cup {Head(queue)}
  /\ queue' = Tail(queue)
  /\ last' = Note("dispatch", Head(queue)[2])
  /\ UNCHANGED <<bytes, files, fs, state, persisted, dry_run, pc, crashes,
                 root, dirs, mainpc, args, observer>>

\* SpliceEventHandler.on_created / on_deleted (no event of the model is a
\* directory event)
HandlerOutcome(event, w) ==
  IF ~HasWavSuffix[event[2]] THEN Outcome(w, FALSE, 0, FALSE)
  ELSE IF event[1] = "created" THEN ProcessFile(w, event[2])
  ELSE RemoveFile(w, event[2])

\* a handler ends; an exception it raises ends the Observer's thread
HandlerEnds(event, o) ==
  /\ fs' = o.w.fs
  /\ persisted' = o.w.persisted
  /\ state' = o.w.state
  /\ last' = Done("on_" \o event[1], event[2], o)
  /\ handling' = handling \ {event}
  /\ observer' = IF o.fatal THEN "stopping" ELSE observer
  /\ UNCHANGED <<bytes, files, dry_run, pc, crashes, root, dirs, mainpc, args, queue>>

Handle(event) ==
  /\ event \in handling
  /\ HandlerEnds(event, HandlerOutcome(event, World))

\* KeyboardInterrupt in the loop of main(): observer.stop()
MainInterrupt ==
  /\ mainpc = "watching"
  /\ observer' = "stopping"
  /\ mainpc' = "joining"
  /\ last' = Note("observer_stop", "")
  /\ UNCHANGED <<bytes, files, fs, state, persisted, dry_run, pc, crashes,
                 root, dirs, args, queue, handling>>

\* observer.join() returns once the Observer's thread has ended; main() ends
MainJoin ==
  /\ mainpc = "joining"
  /\ handling = {}
  /\ Halt
  /\ observer' = "none"
  /\ queue' = <<>>
  /\ mainpc' = "idle"
  /\ args' = NoArgs
  /\ last' = Note("exit", "")
  /\ UNCHANGED <<bytes, files, fs, persisted, crashes, root, dirs, handling>>

\* the watched root is created (Splice is installed) between two runs
CreateRoot ==
  /\ ~root
  /\ root' = TRUE
  /\ last' = Note("create_root", "")
  /\ UNCHANGED <<bytes, files, fs, state, persisted, dry_run, pc, crashes,
                 dirs, mainvars>>

\* before the first run: the watched root may not exist, and then no source
\* file does
InitMain ==
  /\ bytes \in {b \in [Sources -> Contents] : \A s \in Sources \ VaryingContent : b[s] = 1}
  /\ root \in BOOLEAN
  /\ files = [s \in Sources |-> IF s \in Volatile \/ ~root THEN 0 ELSE bytes[s]]
  /\ fs = [p \in {} |-> [kind |-> "hard", src |-> ""]]
  /\ state = EmptyState
  /\ persisted = [kind |-> "absent", files |-> NoFiles]
  /\ dry_run = FALSE
  /\ pc = "down"
  /\ crashes = 0
  /\ last = Note("init", "")
  /\ dirs = {}
  /\ mainpc = "idle"
  /\ args = NoArgs
  /\ observer = "none"
  /\ queue = <<>>
  /\ handling = {}

NextMain ==
  \/ \E a \in [Flags -> BOOLEAN] : MainParse(a)
  \/ MainSetupLogging
  \/ MainCheckRoot
  \/ MainConstruct
  \/ MainCall
  \/ MainReturn
  \/ MainExit
  \/ ObserverStart
  \/ Dispatch
  \/ \E event \in handling : Handle(event)
  \/ MainInterrupt
  \/ MainJoin
  \/ CreateRoot
  \/ \E s \in Volatile : CreateSource(s)
  \/ \E s \in Volatile : DeleteSource(s)

SpecMain == InitMain /\ [][NextMain]_vars

(***************************************************************************)
(* The classifiers called on their own: a path below the watched root is   *)
(* chosen at the start, then _is_loop or _categorize is called on it.      *)
(***************************************************************************)
ProbeOuter == {"", "/Loops", "/one_shots", "/LOOPS"}

ProbeInner == {"", "/One_Shots", "/loops", "/Hits"}

ProbeStems == {"Kick_loop_01", "Kick_Snare", "120_Bass_Synth", "Texture"}

\* the paths the classifiers are called on
ProbePaths ==
  {SPLICE_PACKS_DIR \o "/SomePack" \o a \o b \o "/" \o stem \o ".wav" :
     a \in ProbeOuter, b \in ProbeInner, stem \in ProbeStems}

InitClassify ==
  /\ bytes = [s \in Sources |-> 1]
  /\ files = [s \in Sources |-> 0]
  /\ fs = [p \in {} |-> [kind |-> "hard", src |-> ""]]
  /\ state = EmptyState
  /\ persisted = [kind |-> "absent", files |-> NoFiles]
  /\ dry_run = FALSE
  /\ pc = "up"
  /\ crashes = 0
  /\ \E path \in ProbePaths : last = Note("path", path)
  /\ root = TRUE
  /\ dirs = {}
  /\ mainpc = "idle"
  /\ args = NoArgs
  /\ observer = "none"
  /\ queue = <<>>
  /\ handling = {}

\* self._is_loop(path)
CallIsLoop ==
  /\ last.op = "path"
  /\ last' = [Note("is_loop", last.arg) EXCEPT !.ret = IsLoop(last.arg)]
  /\ UNCHANGED <<bytes, files, fs, state, persisted, dry_run, pc, crashes,
                 root, dirs, mainvars>>

\* self._categorize(path, is_loop)
CallCategorize(is_loop) ==
  /\ last.op = "path"
  /\ last' = [Note("categorize", last.arg) EXCEPT !.flag = is_loop,
                                                  !.value = Categorize(last.arg, is_loop)]
  /\ UNCHANGED <<bytes, files, fs, state, persisted, dry_run, pc, crashes,
                 root, dirs, mainvars>>

NextClassify ==
  \/ CallIsLoop
  \/ \E is_loop \in BOOLEAN : CallCategorize(is_loop)

SpecClassify == InitClassify /\ [][NextClassify]_vars

(***************************************************************************)
(* The Genre Classifier called on its own: _detect_genres is a function of *)
(* its argument.                                                           *)
(***************************************************************************)
GenrePacks == {"/SomePack", "/Deep_House_Vol2", "/Dusty_Breaks"}

GenreFolders == {"", "/Kicks", "/Techno_Tools", "/Drums/Trap"}

GenreStems == {"Kick", "Kick_808", "Jazz_Ride", "Snare_Roll", "Techno_Rumble"}

\* files directly inside a pack folder, and under one or two subfolders
GenreProbes ==
  {SPLICE_PACKS_DIR \o pack \o folder \o "/" \o stem \o ".wav" :
     pack \in GenrePacks, folder \in GenreFolders, stem \in GenreStems}

InitGenres ==
  /\ bytes = [s \in Sources |-> 1]
  /\ files = [s \in Sources |-> 0]
  /\ fs = [p \in {} |-> [kind |-> "hard", src |-> ""]]
  /\ state = EmptyState
  /\ persisted = [kind |-> "absent", files |-> NoFiles]
  /\ dry_run = FALSE
  /\ pc = "up"
  /\ crashes = 0
  /\ \E path \in GenreProbes : last = Note("path", path)
  /\ root = TRUE
  /\ dirs = {}
  /\ mainpc = "idle"
  /\ args = NoArgs
  /\ observer = "none"
  /\ queue = <<>>
  /\ handling = {}

\* genres = self._detect_genres(str(source))
CallDetectGenres ==
  /\ last.op = "path"
  /\ last' = [Note("detect_genres", last.arg) EXCEPT !.genres = DetectGenres(last.arg)]
  /\ UNCHANGED <<bytes, files, fs, state, persisted, dry_run, pc, crashes,
                 root, dirs, mainvars>>

NextGenres == CallDetectGenres

SpecGenres == InitGenres /\ [][NextGenres]_vars

(***************************************************************************)
(* The pack prefix: base_name of _generate_unique_name, which is the name  *)
(* returned while the output tree and the Link Record are empty.           *)
(***************************************************************************)
\* with and without the "packs" anchor
PrefixRoots == {SPLICE_PACKS_DIR, Home \o "/Music"}

PrefixPacks ==
  {"/SomePack", "/Drum & Bass (Vol.2)", "/Café_Sounds", "/808²_Kit", "/Lo-Fi×Tape",
   "/A_Very_Long_Pack_Name_With_More_Than_Thirty_Chars",
   "/Thirty_Characters_Pack_Name_30"}

PrefixFolders == {"", "/Kicks"}

PrefixStems == {"Kick", "Snare__Roll"}

\* the paths above, a file directly under the anchor, and the anchor itself
PrefixProbes ==
  {root_dir \o pack \o folder \o "/" \o stem \o ".wav" :
     root_dir \in PrefixRoots, pack \in PrefixPacks,
     folder \in PrefixFolders, stem \in PrefixStems}
  \cup {SPLICE_PACKS_DIR \o "/Kick.wav", SPLICE_PACKS_DIR}

InitPrefix ==
  /\ bytes = [s \in Sources |-> 1]
  /\ files = [s \in Sources |-> 0]
  /\ fs = [p \in {} |-> [kind |-> "hard", src |-> ""]]
  /\ state = EmptyState
  /\ persisted = [kind |-> "absent", files |-> NoFiles]
  /\ dry_run = FALSE
  /\ pc = "up"
  /\ crashes = 0
  /\ \E path \in PrefixProbes : last = Note("path", path)
  /\ root = TRUE
  /\ dirs = {}
  /\ mainpc = "idle"
  /\ args = NoArgs
  /\ observer = "none"
  /\ queue = <<>>
  /\ handling = {}

\* unique_name = self._generate_unique_name(source), nothing linked yet
CallCandidateName ==
  /\ last.op = "path"
  /\ last' = [Note("candidate_name", last.arg) EXCEPT !.value = CandidateName(last.arg)]
  /\ UNCHANGED <<bytes, files, fs, state, persisted, dry_run, pc, crashes,
                 root, dirs, mainvars>>

NextPrefix == CallCandidateName

SpecPrefix == InitPrefix /\ [][NextPrefix]_vars

(***************************************************************************)
(* Properties.                                                             *)
(***************************************************************************)
\* every link path recorded in a Link Record
Recorded(st) == UNION {Range(st.files[s]) : s \in Keys(st)}

\* C1: Process(path) that links a source, followed by Remove(path), without
\* --dry-run, leaves the Link Record without that key and none of the links
\* recorded for that source under the output tree.
C1_RoundTrip ==
  [][(/\ last.op = "process" /\ last.ret /\ ~dry_run
      /\ last'.op = "remove" /\ last'.arg = last.arg)
     => /\ last.arg \notin Keys(state')
        /\ \A p \in Range(state.files[last.arg]) : p \notin DOMAIN fs']_vars

\* C2: Validate(), without --dry-run, removes every key whose source file is
\* gone, unlinks every link path recorded for it, and Stats() afterwards
\* counts the remaining keys only.
C2_ValidateDropsDeleted ==
  [][(last'.op = "validate" /\ pc = "up" /\ state.wellformed /\ ~dry_run)
     => /\ \A s \in MissingKeys(state) :
             /\ s \notin Keys(state')
             /\ \A p \in Range(state.files[s]) : p \notin DOMAIN fs'
        /\ ShowStats(state') =
             ShowStats([state EXCEPT !.files =
                          [s \in Keys(state) \ MissingKeys(state) |-> state.files[s]]])]_vars

ProgramOps == {"process", "remove", "initial_sync", "resync", "validate"}

\* C3: with --dry-run no operation creates or deletes a link under the
\* output tree or changes the persisted state file.
C3_DryRunGating ==
  [][(dry_run /\ pc = "up" /\ last'.op \in ProgramOps)
     => (fs' = fs /\ persisted' = persisted)]_vars

\* C4: no two distinct source keys of the Link Record have the same
\* canonical All/ link path.
C4_NameUniqueness ==
  \A s1, s2 \in Keys(state) :
    s1 # s2 => state.files[s1][1] # state.files[s2][1]

CrashOps == {"crash_process", "crash_initial_sync", "crash_resync", "crash_resync_scan"}

\* C5: after the process is killed inside an operation, every key of the
\* persisted Link Record has all its recorded link paths under the output
\* tree, and the source that was being processed is not a key.
C5_CrashConsistency ==
  last.op \in CrashOps =>
    /\ \A s \in DOMAIN persisted.files :
         \A p \in Range(persisted.files[s]) : p \in DOMAIN fs
    /\ last.arg \notin DOMAIN persisted.files

\* C6 (as claimed): once the process was killed inside an operation, a
\* completed Validate() leaves no link under the output tree that is not
\* recorded in the Link Record.
C6_ValidateRepairs ==
  (last.op = "validate" /\ ~last.fatal /\ crashes > 0)
    => DOMAIN fs \subseteq Recorded(state)

\* C6 (amended): once the process was killed inside an operation, a
\* completed Resync() leaves no link under the output tree that is not
\* recorded in the Link Record.
C6_ResyncRepairs ==
  (last.op = "resync" /\ ~last.fatal /\ crashes > 0)
    => DOMAIN fs \subseteq Recorded(state)

C6_Witness ==
  /\ last.op = "resync" /\ ~last.fatal /\ crashes > 0
  /\ last.count > 0
  /\ DOMAIN fs # {}

SkipCondition(source) ==
  \/ ~HasWavSuffix[source]
  \/ ~SourceExists(source)
  \/ source \in Keys(state)

\* C8: Process(path) returns false and leaves the Link Record, the
\* persisted state and every link unchanged when the extension is not
\* .wav, the file does not exist, or path is already a key.
C8_ProcessSkip ==
  [][(last'.op = "process" /\ pc = "up" /\ SkipCondition(last'.arg))
     => /\ ~last'.ret /\ ~last'.fatal
        /\ state' = state /\ persisted' = persisted /\ fs' = fs]_vars

C8_Witness ==
  /\ last.op = "process" /\ ~last.ret /\ ~last.fatal
  /\ last.arg \in Keys(state)
  /\ ~dry_run

\* C9: after a completed Process/Remove/Validate/Resync, every link path
\* recorded under a key whose source file exists is under the output tree
\* and refers to that source.
C9_LinksPointAtOwner ==
  (last.op \in {"process", "remove", "validate", "resync"} /\ ~last.fatal /\ pc = "up")
    => \A s \in Keys(state) :
         SourceExists(s) =>
           \A p \in Range(state.files[s]) : p \in DOMAIN fs /\ fs[p].src = s

\* C10: a damaged state file (unreadable, not valid JSON, or valid JSON that
\* is not a record with a "files" mapping) is loaded as an empty Link
\* Record, and no later operation ends with an uncaught exception.
C10_CorruptionRecovery ==
  /\ (last.op = "start" /\ last.loaded \in DamagedKinds)
       => (pc = "up" /\ state = EmptyState)
  /\ ~last.fatal

\* C11 (canonical-first): every entry of the Link Record, in memory and in
\* the state file, is a non-empty list; its first element is the link
\* under All/ and every other element has the base name of the first.
CanonicalFirst(record) ==
  \A s \in DOMAIN record :
    /\ Len(record[s]) > 0
    /\ Folder[record[s][1]] = 1
    /\ \A i \in DOMAIN record[s] : link_name[record[s][i]] = link_name[record[s][1]]

C11_CanonicalFirst == CanonicalFirst(state.files) /\ CanonicalFirst(persisted.files)

\* two keys are recorded, one of them under a hash-suffixed name with one
\* link per genre
C11_Witness ==
  \E s1, s2 \in Keys(state) :
    /\ s1 # s2
    /\ Len(state.files[s1]) = 4
    /\ SourceExists(s1)
    /\ state.files[s1][1] = AllLink(hashed_name[s1][files[s1]])
    /\ state.files[s2][1] = target[s2]

\* C12 (link-set shape): a successful Process (not a dry run) records, in
\* this order, one All/ link, one link under Loops/<category> for a loop
\* and under One_Shots/<category> otherwise, then one link
\* Genres/<family>/<genre> per detected genre in detection order, no genre
\* twice, or the single link Genres/Other when no genre was detected; the
\* list has 2 + max(1, number of genres) elements.
ShapeOf(s, links, name, g) ==
  /\ Len(links) = 2 + Max({1, Len(g)})
  /\ links[1] = ORGANIZED_DIR \o "/All/" \o name
  /\ Cardinality({i \in DOMAIN links : Folder[links[i]] = 1}) = 1
  /\ links[2] = ORGANIZED_DIR \o (IF loop_flag[s] THEN "/Loops/" ELSE "/One_Shots/")
                   \o category_of[s] \o "/" \o name
  /\ Cardinality({i \in DOMAIN links : Folder[links[i]] \in {2, 3}}) = 1
  /\ \A i, j \in DOMAIN g : i # j => g[i] # g[j]
  /\ IF Len(g) = 0
     THEN links[3] = ORGANIZED_DIR \o "/Genres/Other/" \o name
     ELSE \A k \in DOMAIN g :
            links[2 + k] = ORGANIZED_DIR \o "/Genres/" \o g[k][1] \o "/" \o g[k][2]
                             \o "/" \o name

C12_LinkSetShape ==
  [][(last'.op = "process" /\ last'.ret /\ ~dry_run)
       => /\ last'.arg \in Keys(state')
          /\ ShapeOf(last'.arg, state'.files[last'.arg],
                     link_name[state'.files[last'.arg][1]], genres_of[last'.arg])]_vars

\* a file with two genres has just been processed
C12_Witness ==
  /\ last.op = "process" /\ last.ret /\ ~dry_run /\ pc = "up"
  /\ Len(genres_of[last.arg]) = 2
  /\ Len(state.files[last.arg]) = 4


\* C13 (collision scenario): two distinct sources with the same pack name,
\* stem and extension and different contents are processed one after the
\* other, the plain name being free before the first.  The first gets the
\* plain name {pack}__{stem}{ext}, the second the hash-suffixed name
\* {pack}__{stem}_{hash8}{ext}; the names differ and the links of the
\* first are still there, still links to the first.
FirstOfTwo ==
  (last'.op = "process" /\ last'.ret /\ ~dry_run /\ ~LinkExists(fs, target[last'.arg]))
    => state'.files[last'.arg][1] = target[last'.arg]

SecondOfTwo(a, b) ==
  (/\ last.op = "process" /\ last.ret /\ last.arg = a /\ ~dry_run
   /\ a \in Keys(state) /\ state.files[a][1] = target[a]
   /\ last'.op = "process" /\ last'.ret /\ last'.arg = b
   /\ b # a /\ base_name[b] = base_name[a]
   /\ SourceExists(a) /\ SourceExists(b) /\ files[a] # files[b])
    => /\ state'.files[b][1] = AllLink(hashed_name[b][files[b]])
       /\ link_name[state'.files[b][1]] # link_name[state'.files[a][1]]
       /\ state'.files[a] = state.files[a]
       /\ \A q \in Range(state.files[a]) : q \in DOMAIN fs' /\ fs'[q] = fs[q]
       /\ \A q \in Range(state.files[a]) : fs'[q].src = a

C13_CollisionScenario ==
  [][FirstOfTwo /\ \A a, b \in Sources : SecondOfTwo(a, b)]_vars

\* the second of two colliding files with different contents has just been
\* processed; the first holds the plain name
C13_Witness ==
  /\ last.op = "process" /\ last.ret /\ ~dry_run /\ pc = "up"
  /\ \E a \in Keys(state) \ {last.arg} :
       /\ base_name[a] = base_name[last.arg]
       /\ SourceExists(a) /\ SourceExists(last.arg) /\ files[a] # files[last.arg]
       /\ state.files[a][1] = target[a]
       /\ state.files[last.arg][1] = AllLink(hashed_name[last.arg][files[last.arg]])
       /\ \A q \in Range(state.files[a]) : q \in DOMAIN fs /\ fs[q].src = a


\* C14 (idempotent naming): for a source that is a key of the Link Record
\* the Unique Name Generator returns the base name of the first link
\* recorded for it, whether or not the plain candidate name exists in
\* All/; two calls with the same source, Link Record and output tree
\* return the same name.
KnownGetsRecordedName ==
  (last.op = "unique_name" /\ ~last.fatal /\ last.arg \in Keys(state))
    => last.value = link_name[state.files[last.arg][1]]

SameNameTwice ==
  (/\ last.op = "unique_name" /\ ~last.fatal
   /\ last'.op = "unique_name" /\ last'.arg = last.arg)
    => (~last'.fatal /\ last'.value = last.value)

C14_IdempotentNaming == []KnownGetsRecordedName /\ [][SameNameTwice]_vars

\* the generator was called for a key recorded under a hash-suffixed name
\* while the plain candidate name does not exist in All/
C14_Witness ==
  /\ last.op = "unique_name" /\ ~last.fatal /\ last.arg \in Keys(state)
  /\ ~LinkExists(fs, target[last.arg])
  /\ last.value # base_name[last.arg]
  /\ last.value = link_name[state.files[last.arg][1]]

\* C18 (fatal start-up check): when the watched root does not exist at
\* startup, main() stops with an error before the state file is read or
\* written, before any output directory is created and before any link is
\* created or deleted.
C18_FatalStartupCheck ==
  [][(~root /\ mainpc # "idle")
       => /\ dirs' = dirs
          /\ persisted' = persisted
          /\ fs' = fs
          /\ last'.loaded = ""
          /\ mainpc' = "idle" => last'.fatal]_vars

\* C20 (serialized mutation): the initial sync or resync runs to completion
\* before the change watcher is started, and events are handled one at a
\* time: no two operations that mutate the Link Record are in progress at
\* the same time.
C20_SerializedMutation ==
  /\ Cardinality(handling) <= 1
  /\ mainpc = "in_operation" => (observer = "none" /\ handling = {} /\ queue = <<>>)
  /\ observer = "running" => mainpc = "watching"

\* an event is being handled while the next one waits in the queue
C20_Witness ==
  /\ handling # {}
  /\ queue # <<>>
  /\ MainOperation(args) \in {"initial_sync", "resync"}

\* the names of the directories a path lies under, in lower case
DirectoryNames(path) == {Lower(Parts(path)[i]) : i \in 2..(Len(Parts(path)) - 1)}

\* the folder names of loop_patterns
LoopFolders == {SubSeq(loop_patterns[k], 2, Len(loop_patterns[k]) - 1) : k \in DOMAIN loop_patterns}

\* C15 as stated (folder rules beat file name rules): every path under a
\* directory named "one_shots" whose stem contains "_loop" is classified
\* as a one-shot.
C15_FolderBeatsFilename ==
  (/\ last.op = "is_loop"
   /\ "one_shots" \in DirectoryNames(last.arg)
   /\ Contains(Lower(Stem(last.arg)), "_loop"))
    => ~last.ret

\* C15 amended: every path under a directory named "one_shots" and under
\* no directory that has the name of a loop folder, whose stem contains
\* "_loop", is classified as a one-shot.
C15_OneShotFolderBeatsFilename ==
  (/\ last.op = "is_loop"
   /\ "one_shots" \in DirectoryNames(last.arg)
   /\ DirectoryNames(last.arg) \cap LoopFolders = {}
   /\ Contains(Lower(Stem(last.arg)), "_loop"))
    => ~last.ret

C15_Witness ==
  /\ last.op = "is_loop" /\ ~last.ret
  /\ "one_shots" \in DirectoryNames(last.arg)
  /\ DirectoryNames(last.arg) \cap LoopFolders = {}
  /\ Contains(Lower(Stem(last.arg)), "_loop")

\* C16 (loops segment): every path that lies under a directory named
\* "loops" in any letter case is classified as a loop, whatever the file
\* name and the other directories, one-shot folders included.
C16_LoopsSegment ==
  (last.op = "is_loop" /\ "loops" \in DirectoryNames(last.arg)) => last.ret

\* a path under LOOPS and under a one-shot folder, the stem without any
\* loop indicator, is classified as a loop
C16_Witness ==
  /\ last.op = "is_loop" /\ last.ret
  /\ "loops" \in DirectoryNames(last.arg)
  /\ "hits" \in DirectoryNames(last.arg)
  /\ Stem(last.arg) = "Kick_Snare"

\* the categories of the taxonomy `is_loop` selects that match the search
\* text of a path
Taxonomy(is_loop) == IF is_loop THEN LOOP_CATEGORIES ELSE ONESHOT_CATEGORIES

Matching(path, is_loop) ==
  {k \in DOMAIN Taxonomy(is_loop) :
     AnySearch(Taxonomy(is_loop)[k][2], CategorizeText(path))}

\* C17 (first match wins): the Category Classifier returns the first
\* category, in the declaration order of the taxonomy the loop flag
\* selects, that has a pattern matching the search text; it returns
\* "Other" exactly when no category matches; the result is a key of that
\* taxonomy or "Other".
FirstOf(categories, M, value) ==
  /\ value = (IF M = {} THEN "Other" ELSE categories[Min(M)][1])
  /\ (value = "Other") <=> (M = {})
  /\ value \in {categories[k][1] : k \in DOMAIN categories} \cup {"Other"}

C17_FirstMatchWins ==
  last.op = "categorize"
    => FirstOf(Taxonomy(last.flag), Matching(last.arg, last.flag), last.value)

\* two categories match and the one declared first is returned
C17_Witness ==
  /\ last.op = "categorize"
  /\ last.value = "Kicks"
  /\ Cardinality(Matching(last.arg, last.flag)) >= 2

\* C19 (persist after every mutation): when the organizer is not in a dry
\* run, at the end of every completed Process, Remove, Validate and Resync
\* a restart that reloads the state file gets the in-memory Link Record;
\* after a Process that linked a file, a Validate and a Resync the state
\* file holds exactly the in-memory table.
MutatingOps == {"process", "remove", "validate", "resync"}

C19_PersistAfterMutation ==
  (last.op \in MutatingOps /\ ~last.fatal /\ ~dry_run /\ pc = "up")
    => /\ ~LoadRaises(persisted)
       /\ LoadState(persisted) = state
       /\ (last.op \in {"validate", "resync"} \/ last.ret)
            => (persisted.kind = "record" /\ persisted.files = state.files)

\* a Remove has dropped one of two keys and the state file holds the other
C19_Witness ==
  /\ last.op = "remove" /\ ~last.fatal /\ ~dry_run /\ pc = "up"
  /\ last.arg \notin Keys(state)
  /\ Cardinality(Keys(state)) = 1
  /\ fs # << >> /\ \E q \in DOMAIN fs : fs[q].src = last.arg
  /\ persisted.kind = "record" /\ persisted.files = state.files


\* str(Path(path).parent)
Dirname(path) == SubSeq(path, 1, Max(SlashPositions(path)) - 1)

\* C21 (genre search text excludes the file's own name): two files in the
\* same directory always get the same genre set, including files placed
\* directly inside the pack folder.
C21_GenresIgnoreFileName ==
  last.op = "detect_genres"
    => \A other \in GenreProbes :
         Dirname(other) = Dirname(last.arg)
           => Range(DetectGenres(other)) = Range(last.genres)

\* the part of a generated name before "__{stem}{suffix}"
PackPrefix(name, source) ==
  SubSeq(name, 1, Len(name) - Len("__" \o Stem(source) \o Suffix(source)))

\* [A-Za-z0-9_-]
AsciiNameChars == UpperChars \o LowerChars \o DigitChars \o "_-"

\* the path has a "packs" segment that another segment follows
HasPackSegment(path) ==
  \E i \in 1..(Len(Parts(path)) - 1) : Parts(path)[i] = "packs"

\* C22 (pack-name sanitizing): the pack prefix of every generated name
\* contains only characters of [A-Za-z0-9_-], is at most 30 characters
\* long, and is "Unknown" when the path has no "packs" segment followed by
\* another segment.
C22_PackPrefixSanitized ==
  last.op = "candidate_name"
    => /\ \A i \in 1..Len(PackPrefix(last.value, last.arg)) :
            InChars(Char(PackPrefix(last.value, last.arg), i), AsciiNameChars)
       /\ Len(PackPrefix(last.value, last.arg)) <= 30
       /\ ~HasPackSegment(last.arg) => PackPrefix(last.value, last.arg) = "Unknown"

\* no other candidate source shares the candidate name of s
NameIsOwn(s) == \A t \in Sources \ {s} : base_name[t] # base_name[s]

\* C23 (re-add stability): for a source that exists with unchanged content
\* and shares its candidate name with no other source, in the sequence
\* Process(path), Remove(path), Process(path) the second Process records
\* the same ordered link list as the first and leaves no link under the
\* output tree that is not in the Link Record.
C23_ReaddStability ==
  [][(/\ last.op = "remove" /\ last.follows /\ last.before # <<>>
      /\ NameIsOwn(last.arg)
      /\ ~dry_run
      /\ last'.op = "process" /\ last'.arg = last.arg /\ last'.ret)
       => /\ state'.files[last.arg] = last.before
          /\ DOMAIN fs' \subseteq Recorded(state')]_vars

\* a second initial_sync, without --dry-run, returns 0 and changes nothing
SecondSyncIsNoOp ==
  (last'.op = "initial_sync" /\ last'.follows /\ ~last'.fatal /\ ~dry_run)
    => /\ last'.count = 0
       /\ state' = state
       /\ fs' = fs
       /\ persisted' = persisted

\* the count initial_sync returns is the number of keys it added
CountIsKeysAdded ==
  (last'.op = "initial_sync" /\ ~last'.fatal)
    => last'.count = Cardinality(Keys(state') \ Keys(state))

\* C24 as stated (InitialSync idempotence): without --dry-run a second
\* InitialSync returns 0 and leaves the Link Record and every link
\* unchanged; in general (in every mode) the returned count equals the
\* number of keys the call added to the Link Record.
C24_InitialSyncIdempotence == [][SecondSyncIsNoOp /\ CountIsKeysAdded]_vars

\* C24 (InitialSync idempotence), amended: without --dry-run a second
\* InitialSync returns 0 and leaves the Link Record and every link
\* unchanged, and without --dry-run the returned count of every InitialSync
\* equals the number of keys the call added to the Link Record.
C24_InitialSyncIdempotenceNoDryRun ==
  [][SecondSyncIsNoOp /\ (~dry_run => CountIsKeysAdded)]_vars

\* a second initial_sync has returned 0 with files on record
C24_Witness ==
  /\ last.op = "initial_sync" /\ last.follows /\ ~last.fatal
  /\ ~dry_run
  /\ last.count = 0
  /\ RglobWav # {}
  /\ RglobWav \subseteq Keys(state)

\* validate leaves the entry and the links of every key whose source file
\* exists as they are
ValidateFrame ==
  (last'.op = "validate" /\ ~last'.fatal)
    => \A s \in Keys(state) :
         SourceExists(s)
           => /\ s \in Keys(state')
              /\ state'.files[s] = state.files[s]
              /\ \A p \in Range(state.files[s]) \cap DOMAIN fs :
                   p \in DOMAIN fs' /\ fs'[p] = fs[p]

\* remove_file of a path that is not a key changes nothing
RemoveFrame ==
  (last'.op = "remove" /\ ~last'.fatal /\ last'.arg \notin Keys(state))
    => (state' = state /\ fs' = fs /\ persisted' = persisted)

\* a path that validate or remove_file deletes is recorded under a key the
\* operation takes out of the Link Record
NoForeignDelete ==
  (last'.op \in {"validate", "remove"} /\ ~last'.fatal)
    => \A p \in DOMAIN fs \ DOMAIN fs' :
         \E s \in Keys(state) \ Keys(state') : p \in Range(state.files[s])

\* C25 (Validate and Remove frame): Validate leaves unchanged the Link
\* Record entry and the links of every key whose source file still exists,
\* Remove of a path that is not a key changes neither the Link Record nor
\* any link, and neither operation deletes a path recorded only under a
\* different, still-existing source key.
C25_ValidateRemoveFrame == [][ValidateFrame /\ RemoveFrame /\ NoForeignDelete]_vars

\* validate has dropped the key of a deleted file while the key of an
\* existing file, with its links, is on record
C25_Witness ==
  /\ last.op = "validate" /\ ~last.fatal
  /\ last.dropped # {}
  /\ \E s \in Keys(state) :
       SourceExists(s) /\ Range(state.files[s]) \subseteq DOMAIN fs

TypeOK ==
  /\ bytes \in [Sources -> Contents]
  /\ \A s \in Sources : files[s] \in {0, bytes[s]}
  /\ pc \in {"down", "up"}
  /\ dry_run \in BOOLEAN
  /\ state.wellformed \in BOOLEAN
  /\ Keys(state) \subseteq Sources
  /\ \A p \in DOMAIN fs : fs[p].kind = "hard" /\ fs[p].src \in Sources
  /\ crashes \in 0..MaxCrashes

====
